---- MODULE Spec2Model ----
(***************************************************************************)
(* Model of the load scheduler, the batch propagation scheduler and the    *)
(* interpolation state machine of skytracio                                *)
(* (src/src/propagation/bevy_integration.rs, src/src/propagation/client.rs)*)
(* as they are wired into the application by src/src/main.rs.              *)
(*                                                                         *)
(* One tick of the loop runs the schedules PreUpdate, Update, PostUpdate.  *)
(* The systems of one schedule carry no ordering constraints, so they run  *)
(* in any order; commands (spawn, insert, despawn) are applied when the    *)
(* schedule ends.  accept_propagation and send_predictions only share      *)
(* read access to the resources they name, so they may run in parallel;    *)
(* they are therefore split at the points where they take the lock of the  *)
(* shared result buffer.                                                   *)
(*                                                                         *)
(* Abstractions: a Vec3 is one integer component; a Duration is a whole    *)
(* number of simulated seconds and the f64 "minutes" handed to the         *)
(* propagator is carried as that number of seconds (minutes = seconds/60); *)
(* an sgp4::Elements record is an integer kind.                            *)
(*                                                                         *)
(* Specifications: Spec is the application built by main; ConsumerSpec     *)
(* adds a consumer that writes Propagate events itself; LoaderSpec is the  *)
(* load scheduler alone and PropagateSpec the application without loads,   *)
(* both with ticks that are not counted and with the fairness of a tick    *)
(* loop that keeps running.  RepeatedSpec is Spec with a consumer that     *)
(* repeats the load request of main, DecaySpec is Spec with a data file    *)
(* whose first orbit decays.  CacheSpec is the caching client of           *)
(* src/src/propagation/client.rs under concurrent calls of load, for the   *)
(* language editions and lock behaviours a build can have, and             *)
(* CacheLiveSpec is CacheSpec with threads that are scheduled.             *)
(* TriggerSpec is one call of trigger_propagation with its loop taken pass *)
(* by pass, for every batch size.  ElementsSpec                            *)
(* converts a raw record into a SatelliteOrbit and computes its ellipse,   *)
(* OrbitSpec propagates a SatelliteOrbit (src/src/orbit.rs); the f32       *)
(* arithmetic of the propagation is a nondeterministic choice.             *)
(***************************************************************************)
EXTENDS Integers, Sequences, FiniteSets, TLC

\* ---------------------------------------------------------------- bounds
\* ticks of the loop that are explored
MaxTicks == 3
\* LoadElements events a consumer sends
MaxRequests == 1

\* ------------------------------------------------------- configuration
\* InGameSettings as inserted by main (scaled to small integers).
Scale == 2
SimulationSpeed == 3
\* real_time_interval, in the time unit of the frame delta
IntervalSecs == 2
\* dt_minutes of the initial propagation (0.01 minutes, carried as a tag
\* distinct from every accumulated duration, which are multiples of
\* IntervalSecs * SimulationSpeed)
InitialDt == 1
\* settings.propagation.batch_size, one of these for a whole run
BatchSizes == {1, 2}
\* time.delta() of a tick, in the unit of IntervalSecs
FrameDeltas == {1, 2}

\* Load requests a consumer may send.  The data directory holds
\* galileo.json (records the propagator accepts, kind 1) and mixed.json
\* (every second record is a decayed orbit the propagator rejects, kind 0);
\* there is no file for "missing".  decaying.json, requested in DecaySpec
\* only, starts with a record of kind 2: an orbit the propagator accepts at
\* the elapsed time of the initial propagation and rejects at every later
\* elapsed time.
Formats == {"JSON", "TLE"}
Groups == {"galileo", "mixed", "missing"}
DataFiles == [galileo |-> <<1, 1, 1>>,
              mixed |-> <<1, 0, 1>>,
              decaying |-> <<2, 1>>]

VARIABLES
    tick,           \* number of the current tick
    phase,          \* "First", "PreUpdate", "Update", "PostUpdate"
    ran,            \* systems of the current schedule that have returned
    crashed,        \* a system panicked: the tick loop is gone
    batch_size,     \* settings.propagation.batch_size
    delta,          \* time.delta() of the current tick
    timerElapsed,   \* PropagationTimer.timer: elapsed part of the interval
    requests,       \* number of LoadElements events sent so far
    loadEvents,     \* LoadElements not yet read by move_to_loading
    jobs,           \* JobInExecution entities, in spawn order
    bodies,         \* PropagatableSattelite entities; entity id = index
    pendingBodies,  \* bodies spawned by commands not yet applied
    pendingInsert,  \* entities whose PbrBundle insert is not yet applied
    loadedInst,     \* LoadedElements not yet read by instantiate_satelite
    loadedPost,     \* LoadedElements not yet read by post_loadup_predictions
    propagateEvents,\* Propagate not yet read by accept_propagation
    buffer,         \* PropagationResults: the Vec<Propageted> in the Mutex
    lock,           \* holder of the Mutex: "none", "accept", "send", "post"
    acceptPc,       \* accept_propagation: "idle" or "locked"
    sendPc,         \* send_predictions: "idle" or "locked"
    postPc,         \* post_loadup_predictions: "idle" or "locked"
    unit,           \* the Vec<(Entity, Prediction)> a locked unit is about to push
    propagetedEvents,\* Propageted not yet read by adjust_transaltions_on_propagation
    nextBid,        \* history: number of the next batch result pushed
    emitted,        \* history: batch results emitted as Propageted, in order
    build,          \* DefaultClient: how the build treats what the source leaves open
    cache,          \* DefaultClient.cache: the HashMap in the RwLock
    rwlock,         \* DefaultClient.cache: the state of the RwLock
    loads,          \* DefaultClient: the calls of load, each on a thread of its own
    remoteRequests, \* history: number of requests sent to the remote endpoint
    record,         \* the sgp4::Elements a SatelliteOrbit is converted from
    orbit,          \* a SatelliteOrbit component, <<>> before it is built
    solver,         \* the call of propagate and its Kepler solver loop
    propagated,     \* the SatelliteOrbit a call of propagate returned
    elipse,         \* what bevy_elipse_parameters returned
    trigger         \* a call of trigger_propagation followed pass by pass

appVars == <<tick, phase, ran, crashed, batch_size, delta, timerElapsed, requests,
             loadEvents, jobs, bodies, pendingBodies, pendingInsert, loadedInst,
             loadedPost, propagateEvents, buffer, lock, acceptPc, sendPc, postPc,
             unit, propagetedEvents, nextBid, emitted>>

cacheVars == <<build, cache, rwlock, loads, remoteRequests>>

orbitVars == <<record, orbit, solver, propagated, elipse>>

\* what the scheduler actions leave alone
libVars == <<cacheVars, orbitVars, trigger>>

vars == <<appVars, cacheVars, orbitVars, trigger>>

schedVars == <<tick, phase, ran, crashed, batch_size, delta>>
loadVars == <<requests, loadEvents, jobs, pendingBodies, loadedInst, loadedPost>>
propVars == <<propagateEvents, buffer, lock, acceptPc, sendPc, postPc, unit,
              propagetedEvents, nextBid, emitted>>

\* ------------------------------------------------------------- helpers
Min(a, b) == IF a < b THEN a ELSE b

Range(s) == {s[i] : i \in 1..Len(s)}

\* ------------------------------------------------------------ data model
NotPropagated == [tag |-> "NotPropagated"]
Propagated(v, p, j) ==
    [tag |-> "Propagated", velocity |-> v, position |-> p, just_propagated |-> j]

\* PropagatableSattelite::new: status NotPropagated, dt_acc Duration::ZERO;
\* the bundle carries no Transform.
NewSattelite(el) ==
    [elements |-> el, status |-> NotPropagated, dt_acc |-> 0,
     hasTransform |-> FALSE, translation |-> 0]

\* no call of trigger_propagation is being followed
IdleTrigger == [pc |-> "idle", peeked |-> 0]

\* all entities a query or a command can name: applied and reserved ones
NumEntities == Len(bodies) + Len(pendingBodies)

\* ------------------------------------------------- epoch data source
\* an unsupported format is reported as an Err like a missing file
LoadUnsupportedAsErr(group, format) ==
    IF format # "JSON"
    THEN [kind |-> "err", data |-> <<>>]
    ELSE IF group \notin DOMAIN DataFiles
    THEN [kind |-> "err", data |-> <<>>]
    ELSE [kind |-> "ok", data |-> DataFiles[group]]

\* ConstFileClient::load.  A format other than "JSON" hits unimplemented!();
\* otherwise {top_path}/data/{group}.json is opened (an io::Error when it
\* does not exist) and parsed.
Load(group, format) ==
    IF format # "JSON"
    THEN [kind |-> "panic", data |-> <<>>]
    ELSE IF group \notin DOMAIN DataFiles
    THEN [kind |-> "err", data |-> <<>>]
    ELSE [kind |-> "ok", data |-> DataFiles[group]]

\* EpochDataLoader::load_or_empty: unwrap_or_else(|er| { error!(..); vec![] })
LoadOrEmpty(outcome) ==
    IF outcome.kind = "ok" THEN outcome.data ELSE <<>>

\* -------------------------------------------- networked epoch data source
\* DefaultClient: load with an in-memory cache behind a std::sync::RwLock.
\* load has no await point, so a call runs on the thread that polls it; the
\* calls of the model are made on threads of their own.
MaxCalls == 2
Calls == 1..MaxCalls

\* (group, format) keys the callers ask for, and what the remote endpoint
\* holds for them
CacheKeys == {[group |-> g, format |-> "json"] : g \in {"galileo", "stations"}}
RemoteData == [galileo |-> <<1, 1>>, stations |-> <<1>>]

\* What the source leaves to the build.  edition: whether the read guard,
\* a temporary of the scrutinee of the if let, lives on in the else block
\* (editions up to 2021) or is dropped before it (edition 2024).  relock:
\* what a thread finds that locks an RwLock it holds itself, which the
\* standard library leaves open between blocking for ever and panicking.
Builds == [edition : {"2021", "2024"}, relock : {"deadlock", "panic"}]

\* DefaultClient::new
ClientNew ==
    /\ cache = <<>>
    /\ rwlock = [readers |-> {}, writer |-> 0, poisoned |-> FALSE]
    /\ loads = [c \in Calls |-> [pc |-> "idle", key |-> <<>>, response |-> <<>>,
                                 ret |-> [kind |-> "none", data |-> <<>>]]]
    /\ remoteRequests = 0

\* HashMap::insert
Insert(map, k, v) ==
    [x \in DOMAIN map \cup {k} |-> IF x = k THEN v ELSE map[x]]

\* variant: a reader is let in while a writer holds the lock
ReadGrantedAlways(l) == TRUE

\* RwLock::read returns when no writer holds the lock
ReadGranted(l) == l.writer = 0

\* RwLock::write returns when nobody holds the lock
WriteGranted(l) == l.writer = 0 /\ l.readers = {}

\* a caller starts load(group, format)
StartLoad(c, k) ==
    /\ loads[c].pc = "idle"
    /\ loads' = [loads EXCEPT ![c].pc = "read", ![c].key = k]
    /\ UNCHANGED <<appVars, build, cache, rwlock, remoteRequests, orbitVars, trigger>>

\* self.cache.read().unwrap().get(&key): the unwrap panics on a poisoned
\* lock; on a hit the guard is held until the clone is returned; on a miss
\* the else block is entered, with the guard or without it
AcquireRead(c) ==
    /\ loads[c].pc = "read"
    /\ ReadGranted(rwlock)
    /\ IF rwlock.poisoned
       THEN /\ loads' = [loads EXCEPT ![c].pc = "panicked"]
            /\ UNCHANGED rwlock
       ELSE IF loads[c].key \in DOMAIN cache
       THEN /\ loads' = [loads EXCEPT ![c].pc = "hit"]
            /\ rwlock' = [rwlock EXCEPT !.readers = @ \cup {c}]
       ELSE /\ loads' = [loads EXCEPT ![c].pc = "write"]
            /\ rwlock' = [rwlock EXCEPT !.readers =
                            IF build.edition = "2021" THEN @ \cup {c} ELSE @]
    /\ UNCHANGED <<appVars, build, cache, remoteRequests, orbitVars, trigger>>

\* Ok(data.clone()), and the guard is dropped
ReturnCached(c) ==
    /\ loads[c].pc = "hit"
    /\ loads' = [loads EXCEPT ![c].pc = "returned",
                              ![c].ret = [kind |-> "ok", data |-> cache[loads[c].key]]]
    /\ rwlock' = [rwlock EXCEPT !.readers = @ \ {c}]
    /\ UNCHANGED <<appVars, build, cache, remoteRequests, orbitVars, trigger>>

\* let mut guard = self.cache.write().unwrap(); guard.insert(key, vec![]);
\* the guard lives to the end of the else block
AcquireWrite(c) ==
    /\ loads[c].pc = "write"
    /\ IF c \in rwlock.readers
       THEN /\ build.relock = "panic"
            /\ loads' = [loads EXCEPT ![c].pc = "panicked"]
            /\ rwlock' = [rwlock EXCEPT !.readers = @ \ {c}]
            /\ UNCHANGED cache
       ELSE /\ WriteGranted(rwlock)
            /\ IF rwlock.poisoned
               THEN /\ loads' = [loads EXCEPT ![c].pc = "panicked"]
                    /\ UNCHANGED <<rwlock, cache>>
               ELSE /\ loads' = [loads EXCEPT ![c].pc = "request"]
                    /\ rwlock' = [rwlock EXCEPT !.writer = c]
                    /\ cache' = Insert(cache, loads[c].key, <<>>)
    /\ UNCHANGED <<appVars, build, remoteRequests, orbitVars, trigger>>

\* ureq::get(..).call()? and response.into_json()?: the request is made
\* and either yields the records the endpoint holds or an error, which the
\* ? returns at once, dropping the guard
RemoteAnswers(c, ok) ==
    /\ loads[c].pc = "request"
    /\ remoteRequests' = remoteRequests + 1
    /\ IF ok
       THEN /\ loads' = [loads EXCEPT ![c].pc = "store",
                                      ![c].response = RemoteData[loads[c].key.group]]
            /\ UNCHANGED rwlock
       ELSE /\ loads' = [loads EXCEPT ![c].pc = "returned",
                                      ![c].ret = [kind |-> "err", data |-> <<>>]]
            /\ rwlock' = [rwlock EXCEPT !.writer = 0]
    /\ UNCHANGED <<appVars, build, cache, orbitVars, trigger>>

\* let mut guard = self.cache.write().unwrap(); guard.insert(key, records);
\* Ok(records).  The first guard is shadowed, not dropped: a panic here
\* unwinds through it and poisons the lock.
StoreRecords(c) ==
    /\ loads[c].pc = "store"
    /\ IF rwlock.writer = c
       THEN /\ build.relock = "panic"
            /\ loads' = [loads EXCEPT ![c].pc = "panicked"]
            /\ rwlock' = [rwlock EXCEPT !.writer = 0, !.poisoned = TRUE]
            /\ UNCHANGED cache
       ELSE /\ WriteGranted(rwlock)
            /\ cache' = Insert(cache, loads[c].key, loads[c].response)
            /\ loads' = [loads EXCEPT ![c].pc = "returned",
                                      ![c].ret = [kind |-> "ok", data |-> loads[c].response]]
            /\ UNCHANGED rwlock
    /\ UNCHANGED <<appVars, build, remoteRequests, orbitVars, trigger>>

\* ------------------------------------------------------ orbital elements
\* f32 and f64 values are carried as integers: a length in kilometres, an
\* eccentricity in thousandths, an angle of an element set in degrees.  The
\* anomalies the Kepler solver works on are angles in units of 1e-7 radian
\* and may be NaN.
Abs(x) == IF x < 0 THEN -x ELSE x

Num(v) == [nan |-> FALSE, v |-> v]
NaN == [nan |-> TRUE, v |-> 0]

SatelliteOrbitNew(a, e, i, raan, argp, ta, epoch) ==
    [semi_major_axis |-> a, eccentricity |-> e, inclination |-> i, raan |-> raan,
     argument_of_perigee |-> argp, true_anomaly |-> ta, epoch |-> epoch]

\* the fields of an sgp4::Elements record the conversion can read
RawRecords ==
    [mean_motion : {1, 15}, eccentricity : {0, 1, 150}, inclination : {0, 90},
     right_ascension : {0, 90, 270}, argument_of_perigee : {0, 90, 180},
     mean_anomaly : {0, 90}, datetime : {0, 9000}]

\* x as f32: 24 significant bits are kept
F32Significand == 16777216

RECURSIVE Ulp(_, _)
Ulp(x, p) == IF Abs(x) < F32Significand * p THEN p ELSE Ulp(x, 2 * p)

AsF32(x) == LET p == Ulp(x, 1) IN ((x + p \div 2) \div p) * p

\* cube root and square root, rounded down
Icbrt(n) == CHOOSE r \in 0..700 : r * r * r <= n /\ n < (r + 1) * (r + 1) * (r + 1)
Isqrt(n) == CHOOSE r \in 0..1000 : r * r <= n /\ n < (r + 1) * (r + 1)

\* calculate_semi_major_axis: (MU / n^2)^(1/3) / 1000 with n the mean
\* motion in rad/s, which is the semi-major axis of one revolution a day
\* divided by the mean motion in revolutions a day to the power 2/3
GeosynchronousKm == 42241

calculate_semi_major_axis(mean_motion_revs_per_day) ==
    (GeosynchronousKm * 100)
        \div Icbrt(mean_motion_revs_per_day * mean_motion_revs_per_day * 1000000)

\* variant: the anomaly of the record is taken for the true anomaly
FromElementsKeepsAnomaly(value) ==
    SatelliteOrbitNew(AsF32(calculate_semi_major_axis(value.mean_motion)),
                      AsF32(value.eccentricity),
                      AsF32(value.inclination),
                      AsF32(value.right_ascension),
                      AsF32(value.argument_of_perigee),
                      Num(value.mean_anomaly),
                      0)

\* impl From<&sgp4::Elements> for SatelliteOrbit
FromElements(value) ==
    SatelliteOrbitNew(AsF32(calculate_semi_major_axis(value.mean_motion)),
                      AsF32(value.eccentricity),
                      AsF32(value.inclination),
                      AsF32(value.right_ascension),
                      AsF32(value.argument_of_perigee),
                      Num(0),
                      0)

\* ------------------------------------------------------------- rotations
\* Angles of the sample element sets are multiples of 90 degrees, whose
\* sine and cosine are integers, so that the rotations of the code are
\* computed exactly.  A Vec3 is a triple; a Quat is kept as the sequence of
\* the axis-angle rotations it is the product of.
Cos(deg) == CASE deg % 360 = 0 -> 1
              [] deg % 360 = 90 -> 0
              [] deg % 360 = 180 -> -1
              [] deg % 360 = 270 -> 0

Sin(deg) == CASE deg % 360 = 0 -> 0
              [] deg % 360 = 90 -> 1
              [] deg % 360 = 180 -> 0
              [] deg % 360 = 270 -> -1

VecX == <<1, 0, 0>>
VecY == <<0, 1, 0>>
VecZ == <<0, 0, 1>>

Dot(u, v) == u[1] * v[1] + u[2] * v[2] + u[3] * v[3]

Cross(u, v) == <<u[2] * v[3] - u[3] * v[2],
                 u[3] * v[1] - u[1] * v[3],
                 u[1] * v[2] - u[2] * v[1]>>

Normalize(v) == LET n == Isqrt(Dot(v, v)) IN <<v[1] \div n, v[2] \div n, v[3] \div n>>

\* Quat::from_axis_angle(axis, angle) with a unit axis
FromAxisAngle(axis, deg) == [axis |-> axis, deg |-> deg]

\* the rotation of v about q.axis by q.deg
RotateAbout(q, v) ==
    LET k == q.axis
        c == Cos(q.deg)
        s == Sin(q.deg)
        kxv == Cross(k, v)
        kv == Dot(k, v)
    IN  <<v[1] * c + kxv[1] * s + k[1] * kv * (1 - c),
          v[2] * c + kxv[2] * s + k[2] * kv * (1 - c),
          v[3] * c + kxv[3] * s + k[3] * kv * (1 - c)>>

\* q * v for a product q of rotations: the last factor acts first
RECURSIVE Rotate(_, _)
Rotate(q, v) ==
    IF q = <<>> THEN v
    ELSE RotateAbout(Head(q), Rotate(Tail(q), v))

\* SatelliteOrbit::orbital_to_quaternion
orbital_to_quaternion(o) ==
    LET inclination == o.inclination
        raan == o.raan
        arg_perigee == o.argument_of_perigee - 90
        q_raan == FromAxisAngle(VecZ, raan)
        raan_vector == RotateAbout(q_raan, VecX)
        q_incl == FromAxisAngle(Normalize(raan_vector), inclination)
        normal_vector == Cross(raan_vector,
                               Rotate(<<q_incl, FromAxisAngle(VecZ, 90)>>, raan_vector))
        q_argp == FromAxisAngle(Normalize(normal_vector), arg_perigee)
    IN  <<q_raan, q_incl, q_argp>>

\* variant: the offset is the whole semi-major axis
ElipseOffsetOfAxis(o, scale) ==
    LET full_rotation == orbital_to_quaternion(o)
        x == o.semi_major_axis * scale
        y == (x * (Isqrt(1000000 - o.eccentricity * o.eccentricity) \div 10)) \div 100
        elipse_offset == o.semi_major_axis
    IN  [offset |-> Rotate(full_rotation, <<-elipse_offset * scale, 0, 0>>),
         rotation |-> full_rotation,
         half_size |-> <<x, y>>]

\* SatelliteOrbit::bevy_elipse_parameters; scale in hundredths
bevy_elipse_parameters(o, scale) ==
    LET full_rotation == orbital_to_quaternion(o)
        x == o.semi_major_axis * scale
        y == (x * (Isqrt(1000000 - o.eccentricity * o.eccentricity) \div 10)) \div 100
        elipse_offset == o.semi_major_axis * o.eccentricity
    IN  [offset |-> Rotate(full_rotation, <<-elipse_offset * scale, 0, 0>>),
         rotation |-> full_rotation,
         half_size |-> <<x, y>>]

\* ------------------------------------------------------- orbit propagation
\* The f32 arithmetic of propagate is not computed: the mean anomaly it
\* hands to the solver, every correction of the Newton-Raphson iteration
\* and the true anomaly it ends with are any of a few values.  |10| is a
\* correction of 1e-6, which is not below the tolerance; a correction
\* computed from a NaN is a NaN.
KeplerIterations == 100
KeplerTolerance == 10

MeanAnomalies == {Num(31415926), NaN}
Corrections == {Num(-10), Num(9), Num(10)}
TrueAnomalies == {Num(90)}

Sub(x, d) == IF x.nan \/ d.nan THEN NaN ELSE Num(x.v - d.v)

MeanAnomaliesOf(o) ==
    IF o.true_anomaly.nan THEN {NaN} ELSE MeanAnomalies

CorrectionsAt(eccentric_anomaly) ==
    IF eccentric_anomaly.nan THEN {NaN} ELSE Corrections

TrueAnomaliesAt(eccentric_anomaly) ==
    IF eccentric_anomaly.nan THEN {NaN} ELSE TrueAnomalies

\* variant: a correction of just the tolerance ends the loop
BreaksAtTolerance(d) == ~d.nan /\ Abs(d.v) <= KeplerTolerance

\* if delta.abs() < 1e-6 { break; }
Breaks(d) == ~d.nan /\ Abs(d.v) < KeplerTolerance

IdleSolver == [pc |-> "idle", self |-> <<>>, mean_anomaly |-> Num(0),
               eccentric_anomaly |-> Num(0), iterations |-> 0, delta |-> Num(0),
               ret |-> Num(0)]

\* no SatelliteOrbit has been built
NoOrbit ==
    /\ record = <<>>
    /\ orbit = <<>>
    /\ solver = IdleSolver
    /\ propagated = <<>>
    /\ elipse = <<>>

\* PropagatableSattelite::new: let orbit = elements.0.as_ref().into()
new_sattelite ==
    /\ record # <<>>
    /\ orbit = <<>>
    /\ orbit' = FromElements(record)
    /\ UNCHANGED <<appVars, cacheVars, trigger, record, solver, propagated, elipse>>

\* draw_orbits, and the tests: orbit.bevy_elipse_parameters(scale)
draw_orbits(scale) ==
    /\ orbit # <<>>
    /\ elipse' = bevy_elipse_parameters(orbit, scale)
    /\ UNCHANGED <<appVars, cacheVars, trigger, record, orbit, solver, propagated>>

\* propagate(&self, dt) up to the call of solve_keplers_equation, whose
\* first iterate is the mean anomaly
PropagateBegin ==
    /\ orbit # <<>>
    /\ solver.pc \in {"idle", "returned"}
    /\ \E m \in MeanAnomaliesOf(orbit) :
         solver' = [pc |-> "solving", self |-> orbit, mean_anomaly |-> m,
                    eccentric_anomaly |-> m, iterations |-> 0, delta |-> Num(0),
                    ret |-> Num(0)]
    /\ UNCHANGED <<appVars, cacheVars, trigger, record, orbit, propagated, elipse>>

\* one pass of for _ in 0..100 { .. }; the loop is left by the break or
\* after the last pass, and the iterate is returned
SolverIterate ==
    /\ solver.pc = "solving"
    /\ solver.iterations < KeplerIterations
    /\ \E d \in CorrectionsAt(solver.eccentric_anomaly) :
         LET next == Sub(solver.eccentric_anomaly, d)
             left == Breaks(d) \/ solver.iterations + 1 = KeplerIterations
         IN  solver' = [solver EXCEPT !.eccentric_anomaly = next,
                                      !.iterations = @ + 1,
                                      !.delta = d,
                                      !.pc = IF left THEN "solved" ELSE "solving",
                                      !.ret = IF left THEN next ELSE @]
    /\ UNCHANGED <<appVars, cacheVars, trigger, record, orbit, propagated, elipse>>

\* variant: the epoch is moved along with the anomaly
PropagatedOrbitMovesEpoch(self, true_anomaly_new) ==
    [self EXCEPT !.true_anomaly = true_anomaly_new, !.epoch = @ + 1]

\* SatelliteOrbit { true_anomaly: true_anomaly_new, ..*self }
PropagatedOrbit(self, true_anomaly_new) ==
    [self EXCEPT !.true_anomaly = true_anomaly_new]

\* the rest of propagate: the true anomaly of the solution and the new orbit
PropagateReturn ==
    /\ solver.pc = "solved"
    /\ \E ta \in TrueAnomaliesAt(solver.ret) :
         propagated' = PropagatedOrbit(solver.self, ta)
    /\ solver' = [IdleSolver EXCEPT !.pc = "returned", !.self = solver.self]
    /\ UNCHANGED <<appVars, cacheVars, trigger, record, orbit, elipse>>

\* propagete_actual_orbit: *orbit = orbit.propagate(dt)
propagete_actual_orbit ==
    /\ solver.pc = "returned"
    /\ orbit' = propagated
    /\ solver' = IdleSolver
    /\ UNCHANGED <<appVars, cacheVars, trigger, record, propagated, elipse>>

\* ---------------------------------------------------------- tick loop
PreUpdateSystems == {"instantiate_satelite", "post_loadup_predictions"}
UpdateSystems == {"move_to_loading", "accept_propagation", "send_predictions",
                  "adjust_transaltions_on_propagation", "approximate_propagation"}
PostUpdateSystems == {"execute_elements_loading", "trigger_propagation"}

CanRun(ph, sys) == /\ ~crashed
                   /\ phase = ph
                   /\ sys \notin ran

\* A consumer sends a LoadElements event (main's load_data does so at Startup).
SendLoadElements(g, f) ==
    /\ ~crashed
    /\ phase = "First"
    /\ requests < MaxRequests
    /\ requests' = requests + 1
    /\ loadEvents' = Append(loadEvents, [group |-> g, format |-> f])
    /\ UNCHANGED <<schedVars, timerElapsed, jobs, bodies, pendingBodies,
                   pendingInsert, loadedInst, loadedPost, propVars,
                   libVars>>

\* Time is advanced by the frame delta and the schedules of the tick start.
BeginTick(d) ==
    /\ ~crashed
    /\ phase = "First"
    /\ tick < MaxTicks
    /\ tick' = tick + 1
    /\ delta' = d
    /\ phase' = "PreUpdate"
    /\ ran' = {}
    /\ UNCHANGED <<crashed, batch_size, timerElapsed, loadVars, bodies,
                   pendingInsert, propVars,
                   libVars>>

\* ------------------------------------------------------- load scheduler
\* move_to_loading: one background task and one JobInExecution per event.
NewJob(ev) ==
    [group |-> ev.group, format |-> ev.format, task |-> "running",
     data |-> <<>>, visible |-> FALSE]

\* variant: equal events of one read are served by one load unit
RECURSIVE SpawnJobsCoalesced(_)
SpawnJobsCoalesced(evs) ==
    IF evs = <<>> THEN <<>>
    ELSE <<NewJob(Head(evs))>>
         \o SpawnJobsCoalesced(SelectSeq(Tail(evs), LAMBDA ev : ev # Head(evs)))

RECURSIVE SpawnJobs(_)
SpawnJobs(evs) ==
    IF evs = <<>> THEN <<>>
    ELSE <<NewJob(Head(evs))>> \o SpawnJobs(Tail(evs))

move_to_loading ==
    /\ CanRun("Update", "move_to_loading")
    /\ jobs' = jobs \o SpawnJobs(loadEvents)
    /\ loadEvents' = <<>>
    /\ ran' = ran \cup {"move_to_loading"}
    /\ UNCHANGED <<tick, phase, crashed, batch_size, delta, timerElapsed,
                   requests, bodies, pendingBodies, pendingInsert, loadedInst,
                   loadedPost, propVars,
                   libVars>>

\* The background task of job j runs load_or_empty to its end, at any time.
LoadTaskRun(j) ==
    /\ ~crashed
    /\ j \in 1..Len(jobs)
    /\ jobs[j].task = "running"
    /\ LET outcome == Load(jobs[j].group, jobs[j].format)
       IN  jobs' = [jobs EXCEPT ![j].task = IF outcome.kind = "panic" THEN "panicked"
                                           ELSE "done",
                                ![j].data = LoadOrEmpty(outcome)]
    /\ UNCHANGED <<schedVars, timerElapsed, requests, loadEvents, bodies,
                   pendingBodies, pendingInsert, loadedInst, loadedPost, propVars,
                   libVars>>

\* data.iter().map(|el| commands.spawn(PropagatableSattelite::new(..)).id())
RECURSIVE SpawnSattelites(_)
SpawnSattelites(data) ==
    IF data = <<>> THEN <<>>
    ELSE <<NewSattelite(Head(data))>> \o SpawnSattelites(Tail(data))

EntityIds(first, n) == [i \in 1..n |-> first + i - 1]

\* The loop of execute_elements_loading over the jobs the query yields,
\* from job i on; st carries the commands and events issued so far.
RECURSIVE PollJobs(_, _)
PollJobs(i, st) ==
    IF i > Len(st.jobs) THEN st
    ELSE LET job == st.jobs[i] IN
         IF ~job.visible \/ job.task = "running"
         THEN PollJobs(i + 1, st)
         ELSE IF job.task # "done"
         THEN [st EXCEPT !.panic = TRUE]
         ELSE LET first == Len(bodies) + Len(st.spawned) + 1
                  ev == [entities |-> EntityIds(first, Len(job.data)),
                         data |-> job.data]
              IN  PollJobs(i + 1,
                    [st EXCEPT !.spawned = @ \o SpawnSattelites(job.data),
                               !.sent = Append(@, ev),
                               !.jobs[i].task = "taken"])

execute_elements_loading ==
    /\ CanRun("PostUpdate", "execute_elements_loading")
    /\ LET st == PollJobs(1, [jobs |-> jobs, spawned |-> <<>>, sent |-> <<>>, panic |-> FALSE])
       IN  IF st.panic
           THEN /\ crashed' = TRUE
                /\ UNCHANGED <<ran, jobs, pendingBodies, loadedInst, loadedPost>>
           ELSE /\ jobs' = st.jobs
                /\ pendingBodies' = pendingBodies \o st.spawned
                /\ loadedInst' = loadedInst \o st.sent
                /\ loadedPost' = loadedPost \o st.sent
                /\ ran' = ran \cup {"execute_elements_loading"}
                /\ UNCHANGED crashed
    /\ UNCHANGED <<tick, phase, batch_size, delta, timerElapsed, requests,
                   loadEvents, bodies, pendingInsert, propVars,
                   libVars>>

\* instantiate_satelite: commands.entity(e).insert(PbrBundle {..}), which
\* carries the Transform (main installs DefaultPlugins, so the run
\* condition on the mesh and material assets holds).
RECURSIVE LoadedEntities(_)
LoadedEntities(evs) ==
    IF evs = <<>> THEN {}
    ELSE Range(Head(evs).entities) \cup LoadedEntities(Tail(evs))

instantiate_satelite ==
    /\ CanRun("PreUpdate", "instantiate_satelite")
    /\ pendingInsert' = pendingInsert \cup LoadedEntities(loadedInst)
    /\ loadedInst' = <<>>
    /\ ran' = ran \cup {"instantiate_satelite"}
    /\ UNCHANGED <<tick, phase, crashed, batch_size, delta, timerElapsed,
                   requests, loadEvents, jobs, bodies, pendingBodies,
                   loadedPost, propVars,
                   libVars>>

\* ---------------------------------------------- high-fidelity propagator
\* sgp4::Constants::from_elements(el)?.propagate(MinutesSinceEpoch(dt))?:
\* a black box that rejects some element sets, some of them only from an
\* elapsed time on, and otherwise returns a position and a velocity that
\* depend on the elements and on dt.
Sgp4Fails(el, dt) == el = 0 \/ (el = 2 /\ dt > InitialDt)
Sgp4Prediction(el, dt) == [position |-> 7 * el + dt, velocity |-> el + (dt % 2)]

\* the predictions are collected in the reverse of the entry order
RECURSIVE CollectReversed(_, _)
CollectReversed(elements, dt) ==
    IF elements = <<>> THEN [ok |-> TRUE, data |-> <<>>]
    ELSE LET e == Head(elements) IN
         IF Sgp4Fails(e.elements, dt)
         THEN [ok |-> FALSE, data |-> <<>>]
         ELSE LET rest == CollectReversed(Tail(elements), dt)
                  pr == Sgp4Prediction(e.elements, dt)
              IN  IF rest.ok
                  THEN [ok |-> TRUE,
                        data |-> rest.data \o <<[entity |-> e.entity, position |-> pr.position,
                                                 velocity |-> pr.velocity]>>]
                  ELSE rest

\* failing entries are skipped and the rest of the batch is kept
RECURSIVE CollectPartial(_, _)
CollectPartial(elements, dt) ==
    IF elements = <<>> THEN [ok |-> TRUE, data |-> <<>>]
    ELSE LET e == Head(elements)
             rest == CollectPartial(Tail(elements), dt)
             pr == Sgp4Prediction(e.elements, dt)
         IN  IF Sgp4Fails(e.elements, dt) THEN rest
             ELSE [ok |-> TRUE,
                   data |-> <<[entity |-> e.entity, position |-> pr.position,
                               velocity |-> pr.velocity]>> \o rest.data]

\* do_propagate, first half: elements.iter().map(..).collect() into a Result;
\* one failing entry makes the whole collection an Err.
RECURSIVE CollectPredictions(_, _)
CollectPredictions(elements, dt) ==
    IF elements = <<>> THEN [ok |-> TRUE, data |-> <<>>]
    ELSE LET e == Head(elements) IN
         IF Sgp4Fails(e.elements, dt)
         THEN [ok |-> FALSE, data |-> <<>>]
         ELSE LET rest == CollectPredictions(Tail(elements), dt)
                  pr == Sgp4Prediction(e.elements, dt)
              IN  IF rest.ok
                  THEN [ok |-> TRUE,
                        data |-> <<[entity |-> e.entity, position |-> pr.position,
                                    velocity |-> pr.velocity]>> \o rest.data]
                  ELSE rest

\* the buffer is entered without waiting for the holder of the Mutex
TryLockNoWait(l) == TRUE

\* propagations.0.lock(): the Mutex is acquired only when nobody holds it
TryLock(l) == l = "none"

\* do_propagate, Ok arm: lock.push(Propageted { data })
PushResult(buf, data, bid) == Append(buf, [data |-> data, bid |-> bid])

\* --------------------------------------------- post_loadup_predictions
\* the first body of the load is left out of the initial propagation
ExistingElementsButFirst(entities) ==
    IF entities = <<>> THEN <<>>
    ELSE [i \in 1..(Len(entities) - 1) |->
            [entity |-> entities[i + 1], elements |-> bodies[entities[i + 1]].elements]]

\* ev.entities.iter().filter_map(|e| elements.get(*e).ok().map(..)).collect()
RECURSIVE ExistingElements(_)
ExistingElements(entities) ==
    IF entities = <<>> THEN <<>>
    ELSE LET e == Head(entities) IN
         (IF e \in 1..Len(bodies)
          THEN <<[entity |-> e, elements |-> bodies[e].elements]>>
          ELSE <<>>) \o ExistingElements(Tail(entities))

\* One LoadedElements event: the whole load is propagated as one unit with
\* dt = 0.01 minutes, on the tick loop's own thread.
post_loadup_predictions ==
    /\ CanRun("PreUpdate", "post_loadup_predictions")
    /\ postPc = "idle"
    /\ IF loadedPost = <<>>
       THEN /\ ran' = ran \cup {"post_loadup_predictions"}
            /\ UNCHANGED <<loadedPost, lock, postPc, unit>>
       ELSE LET res == CollectPredictions(ExistingElements(Head(loadedPost).entities),
                                          InitialDt)
            IN  /\ loadedPost' = Tail(loadedPost)
                /\ IF res.ok
                   THEN /\ TryLock(lock)
                        /\ lock' = "post"
                        /\ postPc' = "locked"
                        /\ unit' = res.data
                   ELSE UNCHANGED <<lock, postPc, unit>>
                /\ UNCHANGED ran
    /\ UNCHANGED <<tick, phase, crashed, batch_size, delta, timerElapsed,
                   requests, loadEvents, jobs, bodies, pendingBodies,
                   pendingInsert, loadedInst, propagateEvents, buffer,
                   acceptPc, sendPc, propagetedEvents, nextBid, emitted,
                   libVars>>

post_loadup_push ==
    /\ ~crashed
    /\ postPc = "locked"
    /\ buffer' = PushResult(buffer, unit, nextBid)
    /\ nextBid' = nextBid + 1
    /\ lock' = "none"
    /\ postPc' = "idle"
    /\ unit' = <<>>
    /\ UNCHANGED <<schedVars, timerElapsed, loadVars, bodies, pendingInsert,
                   propagateEvents, acceptPc, sendPc, propagetedEvents, emitted,
                   libVars>>

\* ------------------------------------------------- trigger_propagation
\* Duration::from_secs_f64(dt_minutes * 60.0) with
\* dt_minutes = real_time_interval * simulation_speed / 60
StepSecs == IntervalSecs * SimulationSpeed

\* the (entity, elements) pairs of bodies i..j
ChunkData(bs, i, j) ==
    [k \in 1..(j - i + 1) |-> [entity |-> i + k - 1, elements |-> bs[i + k - 1].elements]]

\* take(batch_size) counted after the peeked body instead of from it
ChunkEndOffByOne(i, n, bsize) == Min(i + bsize, n)

\* data.by_ref().take(batch_size): the peeked body and the next ones, up
\* to batch_size in all
ChunkEnd(i, n, bsize) == Min(i + bsize - 1, n)

\* The while-let loop: peek_mut() yields the next body not yet taken, whose
\* duration is advanced and read; take(batch_size) then consumes the chunk.
RECURSIVE TriggerLoop(_, _, _, _)
TriggerLoop(i, bs, evs, bsize) ==
    IF i > Len(bs) THEN [bodies |-> bs, events |-> evs]
    ELSE LET acc == bs[i].dt_acc + StepSecs
             bs2 == [bs EXCEPT ![i].dt_acc = acc]
             j == ChunkEnd(i, Len(bs), bsize)
             ev == [data |-> ChunkData(bs2, i, j), dt_minutes |-> acc]
         IN  TriggerLoop(j + 1, bs2, Append(evs, ev), bsize)

\* variant: the timer counts as finished on every tick
TimerFinishedAlways(elapsed, d) == TRUE

\* timer.tick(time.delta()) of a repeating timer, then timer.finished()
TimerFinished(elapsed, d) == elapsed + d >= IntervalSecs
TimerElapsedAfter(elapsed, d) == (elapsed + d) % IntervalSecs

trigger_propagation ==
    /\ CanRun("PostUpdate", "trigger_propagation")
    /\ timerElapsed' = TimerElapsedAfter(timerElapsed, delta)
    /\ IF TimerFinished(timerElapsed, delta)
       THEN LET r == TriggerLoop(1, bodies, <<>>, batch_size)
            IN  /\ bodies' = r.bodies
                /\ propagateEvents' = propagateEvents \o r.events
       ELSE UNCHANGED <<bodies, propagateEvents>>
    /\ ran' = ran \cup {"trigger_propagation"}
    /\ UNCHANGED <<tick, phase, crashed, batch_size, delta, loadVars,
                   pendingInsert, buffer, lock, acceptPc, sendPc, postPc, unit,
                   propagetedEvents, nextBid, emitted,
                   libVars>>

\* ------------------------------------ trigger_propagation, pass by pass
\* The same system with its while-let loop taken one pass at a time, for
\* the batch sizes a usize allows.  A Duration is scaled to hold at most
\* MaxDurationSecs seconds; += on a Duration panics when the sum does not
\* fit.  (The queue of Propagate events grows with every pass as well.)
MaxDurationSecs == 24

\* timer.timer.tick(time.delta()); if timer.timer.finished() { .. }
TriggerTick ==
    /\ trigger.pc = "idle"
    /\ timerElapsed' = TimerElapsedAfter(timerElapsed, delta)
    /\ trigger' = IF TimerFinished(timerElapsed, delta)
                  THEN [pc |-> "loop", peeked |-> 1]
                  ELSE [pc |-> "done", peeked |-> 0]
    /\ UNCHANGED <<tick, phase, ran, crashed, batch_size, delta, loadVars, bodies,
                   pendingInsert, propVars, cacheVars, orbitVars>>

\* one pass of while let Some(..) = data.peek_mut() { .. }: the duration of
\* the peeked body is advanced, take(batch_size) moves the iterator on and
\* the event is sent
TriggerPass ==
    /\ trigger.pc = "loop"
    /\ trigger.peeked <= Len(bodies)
    /\ LET i == trigger.peeked
           acc == bodies[i].dt_acc + StepSecs
           bs2 == [bodies EXCEPT ![i].dt_acc = acc]
           j == ChunkEnd(i, Len(bodies), batch_size)
           ev == [data |-> ChunkData(bs2, i, j), dt_minutes |-> acc]
       IN  IF acc > MaxDurationSecs
           THEN /\ trigger' = [trigger EXCEPT !.pc = "panicked"]
                /\ UNCHANGED <<bodies, propagateEvents>>
           ELSE /\ bodies' = bs2
                /\ propagateEvents' = Append(propagateEvents, ev)
                /\ trigger' = [trigger EXCEPT !.peeked = j + 1]
    /\ UNCHANGED <<schedVars, timerElapsed, loadVars, pendingInsert, buffer, lock,
                   acceptPc, sendPc, postPc, unit, propagetedEvents, nextBid,
                   emitted, cacheVars, orbitVars>>

\* peek_mut() yields None: the loop and the system end
TriggerReturn ==
    /\ trigger.pc = "loop"
    /\ trigger.peeked > Len(bodies)
    /\ trigger' = [trigger EXCEPT !.pc = "done"]
    /\ UNCHANGED <<appVars, cacheVars, orbitVars>>

\* -------------------------------------------------- accept_propagation
\* One Propagate event: a unit is spawned in a scope and the system waits
\* for it, so the units of one run follow each other.
accept_propagation ==
    /\ CanRun("Update", "accept_propagation")
    /\ acceptPc = "idle"
    /\ IF propagateEvents = <<>>
       THEN /\ ran' = ran \cup {"accept_propagation"}
            /\ UNCHANGED <<propagateEvents, lock, acceptPc, unit>>
       ELSE LET ev == Head(propagateEvents)
                res == CollectPredictions(ev.data, ev.dt_minutes)
            IN  /\ propagateEvents' = Tail(propagateEvents)
                /\ IF res.ok
                   THEN /\ TryLock(lock)
                        /\ lock' = "accept"
                        /\ acceptPc' = "locked"
                        /\ unit' = res.data
                   ELSE UNCHANGED <<lock, acceptPc, unit>>
                /\ UNCHANGED ran
    /\ UNCHANGED <<tick, phase, crashed, batch_size, delta, timerElapsed,
                   loadVars, bodies, pendingInsert, buffer, sendPc, postPc,
                   propagetedEvents, nextBid, emitted,
                   libVars>>

accept_push ==
    /\ ~crashed
    /\ acceptPc = "locked"
    /\ buffer' = PushResult(buffer, unit, nextBid)
    /\ nextBid' = nextBid + 1
    /\ lock' = "none"
    /\ acceptPc' = "idle"
    /\ unit' = <<>>
    /\ UNCHANGED <<schedVars, timerElapsed, loadVars, bodies, pendingInsert,
                   propagateEvents, sendPc, postPc, propagetedEvents, emitted,
                   libVars>>

\* ---------------------------------------------------- send_predictions
send_lock ==
    /\ CanRun("Update", "send_predictions")
    /\ sendPc = "idle"
    /\ TryLock(lock)
    /\ lock' = "send"
    /\ sendPc' = "locked"
    /\ UNCHANGED <<schedVars, timerElapsed, loadVars, bodies, pendingInsert,
                   propagateEvents, buffer, acceptPc, postPc, unit,
                   propagetedEvents, nextBid, emitted,
                   libVars>>

\* lock.drain(1..) followed by a clear: the first result is lost
DrainedFromSecond(buf) == IF buf = <<>> THEN <<>> ELSE Tail(buf)

\* for propagated in lock.drain(0..) { propagated_predictions.send(propagated) }
Drained(buf) == buf
Bids(buf) == [i \in 1..Len(buf) |-> buf[i].bid]

send_predictions ==
    /\ ~crashed
    /\ sendPc = "locked"
    /\ propagetedEvents' = propagetedEvents \o Drained(buffer)
    /\ emitted' = emitted \o Bids(Drained(buffer))
    /\ buffer' = <<>>
    /\ lock' = "none"
    /\ sendPc' = "idle"
    /\ ran' = ran \cup {"send_predictions"}
    /\ UNCHANGED <<tick, phase, crashed, batch_size, delta, timerElapsed,
                   loadVars, bodies, pendingInsert, propagateEvents, acceptPc,
                   postPc, unit, nextBid,
                   libVars>>

\* ------------------------------------------ interpolation state machine
\* positions.get_mut(entity): the query needs Transform, PropagationStatus,
\* SatelliteOrbit and InGameElements on an entity that exists.
InPositionsQuery(bs, e) == e \in 1..Len(bs) /\ bs[e].hasTransform

\* the applied prediction restarts the duration of the body
ApplyPredictionResetsDuration(b, pr) ==
    [b EXCEPT !.translation = pr.position * Scale,
              !.status = Propagated(pr.velocity, pr.position, TRUE),
              !.dt_acc = 0]

\* the one-shot flag is not raised
ApplyPredictionNoFlag(b, pr) ==
    [b EXCEPT !.translation = pr.position * Scale,
              !.status = Propagated(pr.velocity, pr.position, FALSE)]

\* the prediction is added to the translation the body has
ApplyPredictionOnTop(b, pr) ==
    [b EXCEPT !.translation = @ + pr.position * Scale,
              !.status = Propagated(pr.velocity, pr.position, TRUE)]

\* body of the inner loop of adjust_transaltions_on_propagation
ApplyPrediction(b, pr) ==
    [b EXCEPT !.translation = pr.position * Scale,
              !.status = Propagated(pr.velocity, pr.position, TRUE)]

\* the loop over the entries ends at the first entry the query does not know
RECURSIVE ApplyEntriesUntilStale(_, _)
ApplyEntriesUntilStale(bs, data) ==
    IF data = <<>> THEN bs
    ELSE LET pr == Head(data) IN
         IF InPositionsQuery(bs, pr.entity)
         THEN ApplyEntriesUntilStale([bs EXCEPT ![pr.entity] = ApplyPrediction(@, pr)],
                                     Tail(data))
         ELSE bs

RECURSIVE ApplyEntries(_, _)
ApplyEntries(bs, data) ==
    IF data = <<>> THEN bs
    ELSE LET pr == Head(data) IN
         ApplyEntries(IF InPositionsQuery(bs, pr.entity)
                      THEN [bs EXCEPT ![pr.entity] = ApplyPrediction(@, pr)]
                      ELSE bs,
                      Tail(data))

RECURSIVE ApplyEvents(_, _)
ApplyEvents(bs, evs) ==
    IF evs = <<>> THEN bs
    ELSE ApplyEvents(ApplyEntries(bs, Head(evs).data), Tail(evs))

adjust_transaltions_on_propagation ==
    /\ CanRun("Update", "adjust_transaltions_on_propagation")
    /\ bodies' = ApplyEvents(bodies, propagetedEvents)
    /\ propagetedEvents' = <<>>
    /\ ran' = ran \cup {"adjust_transaltions_on_propagation"}
    /\ UNCHANGED <<tick, phase, crashed, batch_size, delta, timerElapsed,
                   loadVars, pendingInsert, propagateEvents, buffer, lock,
                   acceptPc, sendPc, postPc, unit, nextBid, emitted,
                   libVars>>

\* the just_propagated arm clears the flag and falls through to the move
ExtrapolateNoSkip(b, d) ==
    IF ~b.hasTransform THEN b
    ELSE IF b.status.tag = "NotPropagated" THEN b
    ELSE [b EXCEPT !.status.just_propagated = FALSE,
                   !.translation = @ + b.status.velocity * (Scale * SimulationSpeed * d)]

\* the just_propagated arm consumes the prediction and resets the state
ExtrapolateResets(b, d) ==
    IF ~b.hasTransform THEN b
    ELSE IF b.status.tag = "NotPropagated" THEN b
    ELSE IF b.status.just_propagated
    THEN [b EXCEPT !.status = NotPropagated]
    ELSE [b EXCEPT !.translation = @ + b.status.velocity * (Scale * SimulationSpeed * d)]

\* the simulation speed is left out of the move
ExtrapolateWithoutSpeed(b, d) ==
    IF ~b.hasTransform THEN b
    ELSE IF b.status.tag = "NotPropagated" THEN b
    ELSE IF b.status.just_propagated
    THEN [b EXCEPT !.status.just_propagated = FALSE]
    ELSE [b EXCEPT !.translation = @ + b.status.velocity * (Scale * d)]

\* a body without a prediction drifts with a unit velocity
ExtrapolateDrifts(b, d) ==
    IF ~b.hasTransform THEN b
    ELSE IF b.status.tag = "NotPropagated"
    THEN [b EXCEPT !.translation = @ + Scale * SimulationSpeed * d]
    ELSE IF b.status.just_propagated
    THEN [b EXCEPT !.status.just_propagated = FALSE]
    ELSE [b EXCEPT !.translation = @ + b.status.velocity * (Scale * SimulationSpeed * d)]

\* body of the loop of approximate_propagation
Extrapolate(b, d) ==
    IF ~b.hasTransform THEN b
    ELSE IF b.status.tag = "NotPropagated" THEN b
    ELSE IF b.status.just_propagated
    THEN [b EXCEPT !.status.just_propagated = FALSE]
    ELSE [b EXCEPT !.translation = @ + b.status.velocity * (Scale * SimulationSpeed * d)]

approximate_propagation ==
    /\ CanRun("Update", "approximate_propagation")
    /\ bodies' = [e \in 1..Len(bodies) |-> Extrapolate(bodies[e], delta)]
    /\ ran' = ran \cup {"approximate_propagation"}
    /\ UNCHANGED <<tick, phase, crashed, batch_size, delta, timerElapsed,
                   loadVars, pendingInsert, propVars,
                   libVars>>

\* ------------------------------------------------- ends of the schedules
\* commands of PreUpdate: the PbrBundle (with a default Transform) is inserted
InsertBundles(bs, es) ==
    [e \in 1..Len(bs) |-> IF e \in es THEN [bs[e] EXCEPT !.hasTransform = TRUE]
                          ELSE bs[e]]

EndPreUpdate ==
    /\ ~crashed
    /\ phase = "PreUpdate"
    /\ ran = PreUpdateSystems
    /\ bodies' = InsertBundles(bodies, pendingInsert)
    /\ pendingInsert' = {}
    /\ phase' = "Update"
    /\ ran' = {}
    /\ UNCHANGED <<tick, crashed, batch_size, delta, timerElapsed, loadVars,
                   propVars,
                   libVars>>

\* commands of Update: the JobInExecution entities are spawned
EndUpdate ==
    /\ ~crashed
    /\ phase = "Update"
    /\ ran = UpdateSystems
    /\ jobs' = [j \in 1..Len(jobs) |-> [jobs[j] EXCEPT !.visible = TRUE]]
    /\ phase' = "PostUpdate"
    /\ ran' = {}
    /\ UNCHANGED <<tick, crashed, batch_size, delta, timerElapsed, requests,
                   loadEvents, bodies, pendingBodies, pendingInsert, loadedInst,
                   loadedPost, propVars,
                   libVars>>

\* the despawn command is missing
IsDespawnedNever(job) == FALSE

\* commands.get_entity(entity).unwrap().despawn() for the completed jobs
IsDespawned(job) == job.task = "taken"
RemoveDespawned(js) == SelectSeq(js, LAMBDA job : ~IsDespawned(job))

\* commands of PostUpdate: the bodies are spawned, the completed jobs despawned
EndPostUpdate ==
    /\ ~crashed
    /\ phase = "PostUpdate"
    /\ ran = PostUpdateSystems
    /\ bodies' = bodies \o pendingBodies
    /\ pendingBodies' = <<>>
    /\ jobs' = RemoveDespawned(jobs)
    /\ phase' = "First"
    /\ ran' = {}
    /\ UNCHANGED <<tick, crashed, batch_size, delta, timerElapsed, requests,
                   loadEvents, pendingInsert, loadedInst, loadedPost, propVars,
                   libVars>>

\* ------------------------------------------------------- specification
\* the application as main builds it
InitApp ==
    /\ tick = 0
    /\ phase = "First"
    /\ ran = {}
    /\ crashed = FALSE
    /\ batch_size \in BatchSizes
    /\ delta = 1
    /\ timerElapsed = 0
    /\ requests = 0
    /\ loadEvents = <<>>
    /\ jobs = <<>>
    /\ bodies = <<>>
    /\ pendingBodies = <<>>
    /\ pendingInsert = {}
    /\ loadedInst = <<>>
    /\ loadedPost = <<>>
    /\ propagateEvents = <<>>
    /\ buffer = <<>>
    /\ lock = "none"
    /\ acceptPc = "idle"
    /\ sendPc = "idle"
    /\ postPc = "idle"
    /\ unit = <<>>
    /\ propagetedEvents = <<>>
    /\ nextBid = 1
    /\ emitted = <<>>

\* main installs ConstFileClient: no call of DefaultClient::load is made,
\* and the build is any one
Init ==
    /\ InitApp
    /\ ClientNew
    /\ trigger = IdleTrigger
    /\ build = [edition |-> "2021", relock |-> "deadlock"]
    /\ NoOrbit

Next ==
    \/ \E g \in Groups, f \in Formats : SendLoadElements(g, f)
    \/ \E d \in FrameDeltas : BeginTick(d)
    \/ \E j \in 1..MaxRequests : LoadTaskRun(j)
    \/ instantiate_satelite
    \/ post_loadup_predictions
    \/ post_loadup_push
    \/ EndPreUpdate
    \/ move_to_loading
    \/ accept_propagation
    \/ accept_push
    \/ send_lock
    \/ send_predictions
    \/ adjust_transaltions_on_propagation
    \/ approximate_propagation
    \/ EndUpdate
    \/ execute_elements_loading
    \/ trigger_propagation
    \/ EndPostUpdate

Spec == Init /\ [][Next]_vars

\* ------------------------------------------- consumer of the Propagate interface
\* Propagate is a public event: a consumer may write it between two ticks,
\* as test_propagation_logic does with dt_minutes = 30.0 (carried in
\* seconds) for entities it spawned itself with nothing but InGameElements.
\* Such entities are not in the query of the apply step; they get the
\* identifiers -1 and -2.
ConsumerDt == 1800

OwnEntry(e, el) == [entity |-> e, elements |-> el]

\* the requests the consumer may send: its own entities (the second one
\* with elements the propagator accepts or rejects), or its own entities
\* around the first tracked body
ConsumerBatches(bs) ==
    {<<OwnEntry(-1, 1), OwnEntry(-2, 1)>>, <<OwnEntry(-1, 1), OwnEntry(-2, 0)>>}
    \cup (IF Len(bs) >= 1
          THEN {<<OwnEntry(-1, 1), OwnEntry(1, bs[1].elements), OwnEntry(-2, 1)>>}
          ELSE {})

IsConsumerRequest(ev) == ev.dt_minutes = ConsumerDt

\* writer.send(Propagate { data, dt_minutes: 30.0 }) between two app.update()
\* calls, once the previous request has been read
consumer_propagate(data) ==
    /\ ~crashed
    /\ phase = "First"
    /\ \A k \in 1..Len(propagateEvents) : ~IsConsumerRequest(propagateEvents[k])
    /\ propagateEvents' = Append(propagateEvents, [data |-> data, dt_minutes |-> ConsumerDt])
    /\ UNCHANGED <<schedVars, timerElapsed, loadVars, bodies, pendingInsert,
                   buffer, lock, acceptPc, sendPc, postPc, unit,
                   propagetedEvents, nextBid, emitted,
                   libVars>>

\* the application of main with a consumer that also writes Propagate events
NextConsumer ==
    \/ SendLoadElements("galileo", "JSON")
    \/ BeginTick(IntervalSecs)
    \/ \E j \in 1..MaxRequests : LoadTaskRun(j)
    \/ \E data \in ConsumerBatches(bodies) : bodies # <<>> /\ consumer_propagate(data)
    \/ instantiate_satelite
    \/ post_loadup_predictions
    \/ post_loadup_push
    \/ EndPreUpdate
    \/ move_to_loading
    \/ accept_propagation
    \/ accept_push
    \/ send_lock
    \/ send_predictions
    \/ adjust_transaltions_on_propagation
    \/ approximate_propagation
    \/ EndUpdate
    \/ execute_elements_loading
    \/ trigger_propagation
    \/ EndPostUpdate

InitConsumer == Init /\ batch_size = 2

ConsumerSpec == InitConsumer /\ [][NextConsumer]_vars

\* ------------------------------------------- the tick loop without an end
\* results a consumer waits for in the specifications whose ticks are not
\* counted
MaxResults == 2

\* app.update() called again and again: as BeginTick, the ticks not counted
BeginTickUncounted(d) ==
    /\ ~crashed
    /\ phase = "First"
    /\ delta' = d
    /\ phase' = "PreUpdate"
    /\ ran' = {}
    /\ UNCHANGED <<tick, crashed, batch_size, timerElapsed, loadVars, bodies,
                   pendingInsert, propVars,
                   libVars>>

\* one step of a system, of a unit a system waits for, or of the schedules
TickLoopStep ==
    \/ \E d \in FrameDeltas : BeginTickUncounted(d)
    \/ instantiate_satelite
    \/ post_loadup_predictions
    \/ EndPreUpdate
    \/ move_to_loading
    \/ accept_propagation
    \/ accept_push
    \/ send_lock
    \/ send_predictions
    \/ adjust_transaltions_on_propagation
    \/ approximate_propagation
    \/ EndUpdate
    \/ execute_elements_loading
    \/ trigger_propagation
    \/ EndPostUpdate

\* The application with no load requested, so that no body exists, and a
\* consumer that writes Propagate events for its own entities until it has
\* seen MaxResults results.
NextPropagate ==
    \/ TickLoopStep
    \/ \E data \in ConsumerBatches(bodies) :
          nextBid <= MaxResults /\ consumer_propagate(data)

\* The runner calls app.update() for ever, a schedule runs every system it
\* holds, and thread_pool.scope drives the unit it spawned to its end.
PropagateSpec == Init /\ [][NextPropagate]_vars /\ WF_vars(TickLoopStep)

\* --------------------------------------------- the load scheduler alone
\* The application of test_loading_of_celestial_elements: MinimalPlugins and
\* LoadElementsPlugin only.  The run condition of instantiate_satelite does
\* not hold (no mesh and material assets), so PreUpdate runs nothing, Update
\* runs move_to_loading and PostUpdate runs execute_elements_loading.  No
\* system reads the LoadedElements events: loadedInst and loadedPost keep
\* every notification sent.
LoaderBeginTick ==
    /\ ~crashed
    /\ phase = "First"
    /\ phase' = "Update"
    /\ ran' = {}
    /\ UNCHANGED <<tick, crashed, batch_size, delta, timerElapsed, loadVars,
                   bodies, pendingInsert, propVars,
                   libVars>>

LoaderEndUpdate ==
    /\ ~crashed
    /\ phase = "Update"
    /\ ran = {"move_to_loading"}
    /\ jobs' = [j \in 1..Len(jobs) |-> [jobs[j] EXCEPT !.visible = TRUE]]
    /\ phase' = "PostUpdate"
    /\ ran' = {}
    /\ UNCHANGED <<tick, crashed, batch_size, delta, timerElapsed, requests,
                   loadEvents, bodies, pendingBodies, pendingInsert, loadedInst,
                   loadedPost, propVars,
                   libVars>>

LoaderEndPostUpdate ==
    /\ ~crashed
    /\ phase = "PostUpdate"
    /\ ran = {"execute_elements_loading"}
    /\ bodies' = bodies \o pendingBodies
    /\ pendingBodies' = <<>>
    /\ jobs' = RemoveDespawned(jobs)
    /\ phase' = "First"
    /\ ran' = {}
    /\ UNCHANGED <<tick, crashed, batch_size, delta, timerElapsed, requests,
                   loadEvents, pendingInsert, loadedInst, loadedPost, propVars,
                   libVars>>

LoaderLoopStep ==
    \/ LoaderBeginTick
    \/ move_to_loading
    \/ LoaderEndUpdate
    \/ execute_elements_loading
    \/ LoaderEndPostUpdate

NextLoader ==
    \/ LoaderLoopStep
    \/ \E g \in Groups, f \in Formats : SendLoadElements(g, f)
    \/ \E j \in 1..MaxRequests : LoadTaskRun(j)

\* The test calls app.update() again and again, and the task pool runs
\* every task it was given.
LoaderSpec ==
    /\ Init
    /\ [][NextLoader]_vars
    /\ WF_vars(LoaderLoopStep)
    /\ \A j \in 1..MaxRequests : WF_vars(LoadTaskRun(j))

\* ------------------------------------------------ repeated load requests
\* LoadElements events with one and the same key, sent at any time by a
\* consumer of the load scheduler (the key is the one main's load_data
\* sends).
MaxSameRequests == 2

SameKey == [group |-> "galileo", format |-> "JSON"]

SendSameLoadElements ==
    /\ ~crashed
    /\ phase = "First"
    /\ requests < MaxSameRequests
    /\ requests' = requests + 1
    /\ loadEvents' = Append(loadEvents, SameKey)
    /\ UNCHANGED <<schedVars, timerElapsed, jobs, bodies, pendingBodies,
                   pendingInsert, loadedInst, loadedPost, propVars,
                   libVars>>

NextRepeated ==
    \/ LoaderLoopStep
    \/ SendSameLoadElements
    \/ \E j \in 1..MaxSameRequests : LoadTaskRun(j)

RepeatedSpec == Init /\ [][NextRepeated]_vars

\* ------------------------------------------------ a load of decaying orbits
\* The application built by main, asked for the group "decaying".
NextDecay ==
    \/ SendLoadElements("decaying", "JSON")
    \/ \E d \in FrameDeltas : BeginTick(d)
    \/ \E j \in 1..MaxRequests : LoadTaskRun(j)
    \/ instantiate_satelite
    \/ post_loadup_predictions
    \/ post_loadup_push
    \/ EndPreUpdate
    \/ move_to_loading
    \/ accept_propagation
    \/ accept_push
    \/ send_lock
    \/ send_predictions
    \/ adjust_transaltions_on_propagation
    \/ approximate_propagation
    \/ EndUpdate
    \/ execute_elements_loading
    \/ trigger_propagation
    \/ EndPostUpdate

DecaySpec == Init /\ [][NextDecay]_vars

\* ------------------------------------------- the networked loader alone
\* Callers of DefaultClient::load on threads of their own (test_integration
\* is one such caller), in any build.
InitCache ==
    /\ InitApp
    /\ batch_size = 1
    /\ ClientNew
    /\ trigger = IdleTrigger
    /\ build \in Builds
    /\ NoOrbit

NextCache ==
    \E c \in Calls :
        \/ \E k \in CacheKeys : StartLoad(c, k)
        \/ AcquireRead(c)
        \/ ReturnCached(c)
        \/ AcquireWrite(c)
        \/ \E ok \in BOOLEAN : RemoteAnswers(c, ok)
        \/ StoreRecords(c)

CacheSpec == InitCache /\ [][NextCache]_vars

\* ---------------------------------- the networked loader on running threads
\* CacheSpec with threads that are scheduled: a call that can make its
\* next step makes it in the end (the thread of a call is runnable unless
\* it waits for the lock, and the request is answered or fails).
CallProceeds(c) ==
    \/ AcquireRead(c)
    \/ ReturnCached(c)
    \/ AcquireWrite(c)
    \/ \E ok \in BOOLEAN : RemoteAnswers(c, ok)
    \/ StoreRecords(c)

CacheLiveSpec ==
    /\ InitCache
    /\ [][NextCache]_vars
    /\ \A c \in Calls : WF_vars(CallProceeds(c))

\* ------------------------------------------ one call of trigger_propagation
\* trigger_propagation called once on one to three tracked bodies, with any
\* batch size up to 2 and any state of the timer.  The system runs on a
\* thread of the executor, which runs it to its end.
TriggerBatchSizes == 0..2
TrackedSamples ==
    {[k \in 1..n |-> NewSattelite(1)] : n \in 1..3}

InitTrigger ==
    /\ tick = 0
    /\ phase = "PostUpdate"
    /\ ran = {}
    /\ crashed = FALSE
    /\ batch_size \in TriggerBatchSizes
    /\ delta \in FrameDeltas
    /\ timerElapsed \in 0..(IntervalSecs - 1)
    /\ requests = 0
    /\ loadEvents = <<>>
    /\ jobs = <<>>
    /\ bodies \in TrackedSamples
    /\ pendingBodies = <<>>
    /\ pendingInsert = {}
    /\ loadedInst = <<>>
    /\ loadedPost = <<>>
    /\ propagateEvents = <<>>
    /\ buffer = <<>>
    /\ lock = "none"
    /\ acceptPc = "idle"
    /\ sendPc = "idle"
    /\ postPc = "idle"
    /\ unit = <<>>
    /\ propagetedEvents = <<>>
    /\ nextBid = 1
    /\ emitted = <<>>
    /\ ClientNew
    /\ trigger = IdleTrigger
    /\ build = [edition |-> "2021", relock |-> "deadlock"]
    /\ NoOrbit

NextTrigger ==
    \/ TriggerTick
    \/ TriggerPass
    \/ TriggerReturn

TriggerSpec == InitTrigger /\ [][NextTrigger]_vars /\ WF_vars(NextTrigger)

\* ------------------------------------------------ element sets of bodies
\* A body is built from a record and its ellipse is drawn at the scale of
\* main (0.01) or of the tests (1.0).
ElipseScales == {1, 100}

InitElements ==
    /\ InitApp
    /\ batch_size = 1
    /\ ClientNew
    /\ trigger = IdleTrigger
    /\ build = [edition |-> "2021", relock |-> "deadlock"]
    /\ record \in RawRecords
    /\ orbit = <<>>
    /\ solver = IdleSolver
    /\ propagated = <<>>
    /\ elipse = <<>>

NextElements ==
    \/ new_sattelite
    \/ \E scale \in ElipseScales : draw_orbits(scale)

ElementsSpec == InitElements /\ [][NextElements]_vars

\* ------------------------------------------------ the satellites of main
\* The second orbit main's setup spawns (angles taken to the next multiple
\* of 90 degrees) and the orbit of test_elipse_calculations, propagated by
\* propagete_actual_orbit or, as the tests do, without storing the result.
SampleOrbits ==
    {SatelliteOrbitNew(24000, 150, 0, 0, 90, Num(0), 0),
     SatelliteOrbitNew(6771, 0, 0, 0, 90, Num(0), 2451545)}

InitOrbit ==
    /\ InitApp
    /\ batch_size = 1
    /\ ClientNew
    /\ trigger = IdleTrigger
    /\ build = [edition |-> "2021", relock |-> "deadlock"]
    /\ record = <<>>
    /\ orbit \in SampleOrbits
    /\ solver = IdleSolver
    /\ propagated = <<>>
    /\ elipse = <<>>

NextOrbit ==
    \/ PropagateBegin
    \/ SolverIterate
    \/ PropagateReturn
    \/ propagete_actual_orbit

OrbitSpec == InitOrbit /\ [][NextOrbit]_vars

\* ------------------------------------------------------ step predicates
\* the step in which a system of the current schedule returns
Returns(sys) == sys \notin ran /\ sys \in ran'

\* a run of trigger_propagation in which timer.finished() holds
TriggerFires == Returns("trigger_propagation") /\ TimerFinished(timerElapsed, delta)

\* the Propagate events sent by the step
NewPropagate == SubSeq(propagateEvents', Len(propagateEvents) + 1, Len(propagateEvents'))

CeilDiv(n, b) == (n + b - 1) \div b

EntitiesOf(data) == [i \in 1..Len(data) |-> data[i].entity]

\* ------------------------------------------------------------------ C1
\* C1: when the timer fires with N tracked bodies and batch size B >= 1,
\* trigger_propagation sends exactly ceil(N/B) Propagate events, none of
\* them empty, and the k-th one holds the bodies (k-1)B+1 .. min(kB, N) in
\* iteration order, so every body is in exactly one of them.
C1_BatchPartition ==
    [][TriggerFires =>
        LET N == Len(bodies)
            B == batch_size
        IN  /\ Len(NewPropagate) = CeilDiv(N, B)
            /\ \A k \in 1..Len(NewPropagate) :
                 /\ NewPropagate[k].data # <<>>
                 /\ EntitiesOf(NewPropagate[k].data)
                      = [i \in 1..(Min(k * B, N) - (k - 1) * B) |-> (k - 1) * B + i]
            /\ \A e \in 1..N :
                 Cardinality({k \in 1..Len(NewPropagate) :
                                e \in Range(EntitiesOf(NewPropagate[k].data))}) = 1
    ]_vars

\* a firing tick has split three bodies into a full and a partial batch
C1_Witness ==
    /\ phase = "PostUpdate"
    /\ "trigger_propagation" \in ran
    /\ batch_size = 2
    /\ Len(bodies) = 3
    /\ Len(propagateEvents) = 2
    /\ Len(propagateEvents[1].data) = 2
    /\ Len(propagateEvents[2].data) = 1

\* ------------------------------------------------------------------ C2
\* C2: on a firing tick the Accumulated Duration of every tracked body
\* grows by interval.seconds x simulationSpeed seconds.
C2_EveryBodyAccumulates ==
    [][TriggerFires =>
        \A e \in 1..Len(bodies) : bodies'[e].dt_acc = bodies[e].dt_acc + StepSecs
    ]_vars

\* ------------------------------------------------------------------ C3
\* C3: for every batch dispatched on a firing tick, the elapsed minutes sent
\* for a member equal that member's own Accumulated Duration.
C3_OwnDurationSent ==
    [][TriggerFires =>
        \A k \in 1..Len(NewPropagate) :
          \A i \in 1..Len(NewPropagate[k].data) :
            NewPropagate[k].dt_minutes = bodies'[NewPropagate[k].data[i].entity].dt_acc
    ]_vars

\* ------------------------------------------------------------------ C4
\* the predictions of a batch, one per entry in entry order
ExpectedData(ev) ==
    [i \in 1..Len(ev.data) |->
        [entity |-> ev.data[i].entity,
         position |-> Sgp4Prediction(ev.data[i].elements, ev.dt_minutes).position,
         velocity |-> Sgp4Prediction(ev.data[i].elements, ev.dt_minutes).velocity]]

BatchFails(ev) == \E i \in 1..Len(ev.data) : Sgp4Fails(ev.data[i].elements, ev.dt_minutes)

\* accept_propagation takes the next Propagate event
AcceptTakes == /\ phase = "Update"
               /\ propagateEvents # <<>>
               /\ propagateEvents' = Tail(propagateEvents)

\* C4: when the propagator fails for an entry of a batch, nothing of that
\* batch is pushed or emitted (the buffer and the notifications are left as
\* they are and no unit is left holding a result); a batch whose entries all
\* succeed is pushed with one prediction per entry, whatever became of the
\* batches taken before it in the same tick.
C4_FailingBatchDropped ==
    /\ [][AcceptTakes =>
            LET ev == Head(propagateEvents) IN
            IF BatchFails(ev)
            THEN /\ buffer' = buffer
                 /\ propagetedEvents' = propagetedEvents
                 /\ acceptPc' = "idle"
            ELSE /\ acceptPc' = "locked"
                 /\ unit' = ExpectedData(ev)
         ]_vars
    /\ [][acceptPc = "locked" /\ acceptPc' = "idle" =>
            /\ Len(buffer') = Len(buffer) + 1
            /\ buffer'[Len(buffer')].data = unit
         ]_vars

\* of the two batches of one firing tick the first (bodies 1, 2) failed on
\* body 2 and the second (body 3) has been emitted
C4_Witness ==
    /\ batch_size = 2
    /\ Len(bodies) = 3
    /\ bodies[2].elements = 0
    /\ \E i \in 1..Len(propagetedEvents) :
         /\ EntitiesOf(propagetedEvents[i].data) = <<3>>
         /\ propagetedEvents[i].data[1].position = Sgp4Prediction(1, StepSecs).position

\* ------------------------------------------------------------------ C5
Occurrences(seq, x) == Cardinality({i \in 1..Len(seq) : seq[i] = x})

\* the step in which send_predictions drains the buffer
DrainStep == sendPc = "locked" /\ sendPc' = "idle"

\* C5: every batch result pushed so far is either still in the buffer or
\* has been emitted as a Propageted notification, exactly once in all; the
\* drain emits every result of the buffer once, in order, and leaves the
\* buffer empty; no notification is added by any other step.
C5_DrainExactlyOnce ==
    /\ [](\A b \in 1..(nextBid - 1) :
            Occurrences(Bids(buffer), b) + Occurrences(emitted, b) = 1)
    /\ [][DrainStep =>
            /\ buffer' = <<>>
            /\ propagetedEvents' = propagetedEvents \o buffer
            /\ emitted' = emitted \o Bids(buffer)
         ]_vars
    /\ [][Len(propagetedEvents') > Len(propagetedEvents) => DrainStep]_vars

\* a unit pushed its result after the drain of the same tick, while an
\* earlier result had already been emitted
C5_Witness ==
    /\ phase = "Update"
    /\ "send_predictions" \in ran
    /\ "accept_propagation" \in ran
    /\ buffer # <<>>
    /\ emitted # <<>>

\* ------------------------------------------------------------------ C6
\* C6: at most one of the propagation unit of accept_propagation, the
\* initial propagation and the drain of send_predictions is inside the
\* critical section, its owner is the holder of the lock, and the buffer
\* changes only in a step of the holder, which releases the lock.
C6_BufferUnderLock ==
    /\ [](Cardinality({pc \in {"accept", "send", "post"} :
                         \/ pc = "accept" /\ acceptPc = "locked"
                         \/ pc = "send" /\ sendPc = "locked"
                         \/ pc = "post" /\ postPc = "locked"}) <= 1)
    /\ [](/\ acceptPc = "locked" => lock = "accept"
          /\ sendPc = "locked" => lock = "send"
          /\ postPc = "locked" => lock = "post")
    /\ [][buffer' # buffer => lock # "none" /\ lock' = "none"]_vars

\* the unit holds the lock with a result to push while send_predictions
\* has not yet drained in this tick
C6_Witness ==
    /\ phase = "Update"
    /\ acceptPc = "locked"
    /\ lock = "accept"
    /\ unit # <<>>
    /\ "send_predictions" \notin ran

\* ------------------------------------------------------------------ C7
MovedBy(b, d) == b.status.velocity * (Scale * SimulationSpeed * d)

\* C7: an extrapolation tick leaves the translation of a body whose flag is
\* raised as it is and clears the flag, and moves a body whose flag is clear
\* by velocity x scale x simulationSpeed x frameDelta; between the apply
\* step and the extrapolation ticks nothing else touches the state or the
\* translation, so the first extrapolation after an apply skips and the
\* second one moves.
C7_OneShotSkip ==
    /\ [][Returns("approximate_propagation") =>
            \A e \in 1..Len(bodies) :
              bodies[e].status.tag = "Propagated" =>
                IF bodies[e].status.just_propagated
                THEN /\ bodies'[e].translation = bodies[e].translation
                     /\ bodies'[e].status = [bodies[e].status EXCEPT !.just_propagated = FALSE]
                ELSE /\ bodies'[e].translation = bodies[e].translation + MovedBy(bodies[e], delta)
                     /\ bodies'[e].status = bodies[e].status
         ]_vars
    /\ [][\A e \in 1..Len(bodies) :
            (bodies'[e].status # bodies[e].status
               \/ bodies'[e].translation # bodies[e].translation)
            => \/ Returns("approximate_propagation")
               \/ Returns("adjust_transaltions_on_propagation")
         ]_vars

\* a body that was given a prediction has been skipped once and then moved
C7_Witness ==
    \E e \in 1..Len(bodies) :
        /\ bodies[e].status.tag = "Propagated"
        /\ ~bodies[e].status.just_propagated
        /\ bodies[e].translation # bodies[e].status.position * Scale

\* ------------------------------------------------------------------ C8
\* the predictions for body e in the notifications about to be applied
PredictionsFor(e) ==
    UNION {{ev.data[i] : i \in {k \in 1..Len(ev.data) : ev.data[k].entity = e}}
            : ev \in Range(propagetedEvents)}

\* C8: when the apply step reads a prediction for an existing body, created
\* by the load scheduler, the body is left Propagated with the velocity and
\* position of a prediction read for it and with the flag raised, whatever
\* its state before.
C8_PredictionApplied ==
    [][Returns("adjust_transaltions_on_propagation") =>
        \A e \in 1..Len(bodies) :
          PredictionsFor(e) # {} =>
            \E pr \in PredictionsFor(e) :
               bodies'[e].status = Propagated(pr.velocity, pr.position, TRUE)
    ]_vars

\* a body that was Propagated by the initial propagation has been given the
\* prediction of a timer batch
C8_Witness ==
    /\ "adjust_transaltions_on_propagation" \in ran
    /\ \E e \in 1..Len(bodies) :
         /\ bodies[e].status.tag = "Propagated"
         /\ bodies[e].status.just_propagated
         /\ bodies[e].status.position = Sgp4Prediction(1, StepSecs).position
         /\ bodies[e].dt_acc = StepSecs
         /\ bodies[e].translation = bodies[e].status.position * Scale

\* ------------------------------------------------------------------ C9
\* C9: a body that is Propagated is Propagated after every step.
C9_NeverBackToNotPropagated ==
    [][\A e \in 1..Len(bodies) :
         bodies[e].status.tag = "Propagated" => bodies'[e].status.tag = "Propagated"
    ]_vars

\* a Propagated body has gone through a failed batch of its neighbours and
\* through extrapolation ticks
C9_Witness ==
    /\ tick = MaxTicks
    /\ phase = "First"
    /\ \E e, f \in 1..Len(bodies) :
         /\ bodies[e].status.tag = "Propagated"
         /\ ~bodies[e].status.just_propagated
         /\ bodies[f].status.tag = "NotPropagated"
         /\ bodies[f].dt_acc > 0

\* ----------------------------------------------------------------- C10
\* the jobs whose poll yields the loaded data, in query order
CompletedJobs == SelectSeq([j \in 1..Len(jobs) |-> j],
                           LAMBDA j : jobs[j].visible /\ jobs[j].task = "done")

NewLoaded == SubSeq(loadedPost', Len(loadedPost) + 1, Len(loadedPost'))

RECURSIVE TotalRecords(_)
TotalRecords(js) ==
    IF js = <<>> THEN 0 ELSE Len(jobs[Head(js)].data) + TotalRecords(Tail(js))

\* C10: when the poll finds load units completed, one loaded notification is
\* sent per completed unit, carrying the k records of the unit and k new
\* entity identifiers in record order; each identifier names a new body with
\* the elements of its record, state NotPropagated and Accumulated Duration
\* zero; exactly k bodies are created; the job is taken out of the set of
\* jobs when the schedule ends, so no later poll sees it.
C10_LoadMaterialized ==
    /\ [][Returns("execute_elements_loading") =>
            LET done == CompletedJobs
                all == bodies \o pendingBodies'
            IN  /\ Len(NewLoaded) = Len(done)
                /\ Len(pendingBodies') = Len(pendingBodies) + TotalRecords(done)
                /\ \A n \in 1..Len(done) :
                     LET job == jobs[done[n]]
                         ev == NewLoaded[n]
                     IN  /\ ev.data = job.data
                         /\ Len(ev.entities) = Len(job.data)
                         /\ \A r \in 1..Len(ev.entities) :
                              /\ ev.entities[r] > NumEntities
                              /\ ev.entities[r] <= Len(all)
                              /\ all[ev.entities[r]].elements = job.data[r]
                              /\ all[ev.entities[r]].status = NotPropagated
                              /\ all[ev.entities[r]].dt_acc = 0
                         /\ Cardinality(Range(ev.entities)) = Len(ev.entities)
                         /\ \A m \in 1..Len(done) :
                              m # n => Range(ev.entities) \cap Range(NewLoaded[m].entities) = {}
                         /\ jobs'[done[n]].task = "taken"
                /\ loadedInst' = loadedInst \o NewLoaded
         ]_vars
    /\ [](phase # "PostUpdate" => \A j \in 1..Len(jobs) : jobs[j].task # "taken")
    /\ [](phase = "PostUpdate" /\ "execute_elements_loading" \notin ran
            => \A j \in 1..Len(jobs) : jobs[j].task # "taken")

\* a load of three records has become three bodies and its job is gone
C10_Witness ==
    /\ phase = "First"
    /\ requests = 1
    /\ jobs = <<>>
    /\ Len(bodies) = Len(DataFiles.galileo)
    /\ \A e \in 1..Len(bodies) : bodies[e].status = NotPropagated /\ bodies[e].dt_acc = 0

\* ----------------------------------------------------------------- C11
\* C11: the n-th load request is followed by an n-th loaded notification,
\* there is never a notification more than there are requests, and the
\* notification of a completed unit carries the records load_or_empty
\* returned for the request.
C11_EveryRequestCompletes ==
    /\ \A n \in 1..MaxRequests : (requests >= n) ~> (Len(loadedPost) >= n)
    /\ [](Len(loadedPost) <= requests)
    /\ [][Returns("execute_elements_loading") =>
            /\ Len(NewLoaded) = Len(CompletedJobs)
            /\ \A k \in 1..Len(NewLoaded) :
                 LET job == jobs[CompletedJobs[k]]
                 IN  NewLoaded[k].data = LoadOrEmpty(Load(job.group, job.format))
         ]_vars

\* the request for "galileo" in "JSON" has been answered with the three
\* records of the file, and its job is gone
C11_Witness ==
    /\ ~crashed
    /\ requests = 1
    /\ jobs = <<>>
    /\ Len(loadedPost) = 1
    /\ loadedPost[1].data = DataFiles.galileo
    /\ Len(loadedPost[1].entities) = Len(DataFiles.galileo)

\* ----------------------------------------------------------------- C12
\* the step in which the background task of job j comes to its end
TaskEnds(j) ==
    /\ Len(jobs') = Len(jobs)
    /\ jobs[j].task = "running"
    /\ jobs'[j].task # "running"

\* C12: whatever load does, the background task ends with a record list for
\* the load scheduler to poll: the empty list when load failed in any way,
\* load's own list when it succeeded.
C12_LoaderFailuresCaught ==
    [][\A j \in 1..Len(jobs) :
         TaskEnds(j) =>
           LET outcome == Load(jobs[j].group, jobs[j].format)
           IN  /\ jobs'[j].task = "done"
               /\ jobs'[j].data = IF outcome.kind = "ok" THEN outcome.data ELSE <<>>
    ]_vars


\* ----------------------------------------------------------------- C13
\* C13: a background unit never holds up the system that started it: while
\* the propagation unit of accept_propagation or the initial propagation of
\* post_loadup_predictions is still on its way to the buffer, the system has
\* already returned to the tick loop; the poll of the load units returns
\* with the units that are still running left as they are, and takes the
\* result only of a unit that has come to its end.
C13_NeverWaitsForUnit ==
    /\ [](acceptPc = "locked" => "accept_propagation" \in ran)
    /\ [](postPc = "locked" => "post_loadup_predictions" \in ran)
    /\ [][Returns("execute_elements_loading") =>
            \A j \in 1..Len(jobs) :
              /\ jobs[j].task = "running" => jobs'[j] = jobs[j]
              /\ jobs'[j].task = "taken" => jobs[j].task = "done"
         ]_vars

\* ----------------------------------------------------------------- C16
\* C16: no failure of a load or of a propagation takes the tick loop down.
C16_LoopSurvives == ~crashed

\* ----------------------------------------------------------------- C17
\* the step in which the poll of execute_elements_loading panics
PollPanics == ~crashed /\ crashed'

\* C17: a load request with a format other than "JSON" never ends as a
\* completed load: its task never holds a record list, it ends in a panic,
\* and the poll that meets it takes the tick loop down without sending a
\* loaded notification or creating a body; only such a request does so.
C17_UnsupportedFormatLoud ==
    /\ [](\A j \in 1..Len(jobs) :
            jobs[j].format # "JSON" =>
              /\ jobs[j].task \in {"running", "panicked"}
              /\ jobs[j].data = <<>>)
    /\ [][\A j \in 1..Len(jobs) :
            TaskEnds(j) /\ jobs[j].format # "JSON" => jobs'[j].task = "panicked"
         ]_vars
    /\ [][Returns("execute_elements_loading") =>
            \A j \in 1..Len(jobs) : ~(jobs[j].visible /\ jobs[j].format # "JSON"
                                        /\ jobs[j].task # "running")
         ]_vars
    /\ [][PollPanics =>
            /\ \E j \in 1..Len(jobs) : jobs[j].visible /\ jobs[j].format # "JSON"
            /\ UNCHANGED <<loadedInst, loadedPost, pendingBodies, bodies>>
         ]_vars

\* the poll met the panicked task of a "TLE" request: the loop is down and
\* nothing was loaded
C17_Witness ==
    /\ crashed
    /\ \E j \in 1..Len(jobs) : jobs[j].format = "TLE" /\ jobs[j].task = "panicked"
    /\ bodies = <<>>
    /\ loadedPost = <<>>


\* ----------------------------------------------------------------- C19
\* the bodies the apply step updates
AppliedTo(e) == PredictionsFor(e) # {} /\ InPositionsQuery(bodies, e)

\* C19 as stated: the Accumulated Duration of a body restarts from zero when
\* a prediction for the body is applied.
C19_DurationRestarts ==
    [][Returns("adjust_transaltions_on_propagation") =>
        \A e \in 1..Len(bodies) : AppliedTo(e) => bodies'[e].dt_acc = 0
    ]_vars

\* C19, amended: the Accumulated Duration of a body is never reset: the
\* apply step leaves it as it is, and the only step that changes it is a
\* firing run of trigger_propagation, which adds interval x simulationSpeed;
\* it is the simulated time added up for the body since it was created.
C19_DurationNeverReset ==
    /\ [][Returns("adjust_transaltions_on_propagation") =>
            \A e \in 1..Len(bodies) : bodies'[e].dt_acc = bodies[e].dt_acc
         ]_vars
    /\ [][\A e \in 1..Len(bodies) :
            bodies'[e].dt_acc # bodies[e].dt_acc =>
              /\ TriggerFires
              /\ bodies'[e].dt_acc = bodies[e].dt_acc + StepSecs
         ]_vars

\* the prediction of the first timer batch has been applied to a body whose
\* duration went on to a second interval
C19_Witness ==
    \E e \in 1..Len(bodies) :
        /\ bodies[e].status.tag = "Propagated"
        /\ bodies[e].status.position = Sgp4Prediction(1, StepSecs).position
        /\ bodies[e].dt_acc = 2 * StepSecs

\* ----------------------------------------------------------------- C20
\* C20: the Accumulated Duration of a body does not decrease in a step that
\* applies no prediction for it, and it is strictly larger after every
\* firing run of trigger_propagation (interval x simulationSpeed > 0).
C20_DurationGrows ==
    /\ [][\A e \in 1..Len(bodies) :
            ~(Returns("adjust_transaltions_on_propagation") /\ AppliedTo(e))
              => bodies'[e].dt_acc >= bodies[e].dt_acc
         ]_vars
    /\ [][TriggerFires /\ StepSecs > 0 =>
            \A e \in 1..Len(bodies) : bodies'[e].dt_acc > bodies[e].dt_acc
         ]_vars


\* ----------------------------------------------------------------- C14
\* post_loadup_predictions takes the next LoadedElements event
PostTakes == /\ phase = "PreUpdate"
             /\ loadedPost # <<>>
             /\ loadedPost' = Tail(loadedPost)

\* the initial propagation a completed load asks for: every new body with
\* the record it was created from, at the fixed elapsed time
InitialRequest(ev) ==
    [data |-> [i \in 1..Len(ev.entities) |->
                 [entity |-> ev.entities[i], elements |-> ev.data[i]]],
     dt_minutes |-> InitialDt]

\* the step in which the initial propagation pushes its result
PostPushes == postPc = "locked" /\ postPc' = "idle"

\* the bodies named by the Propagate events sent by the step
Dispatched == UNION {Range(EntitiesOf(NewPropagate[k].data)) : k \in 1..Len(NewPropagate)}

\* C14 as stated: for every completed load the initial propagation yields a
\* prediction at 0.01 minutes for every new body, and the timer does not
\* fire between the completion of the load and the push of that result.
C14_EveryBodyGetsFirstPrediction ==
    /\ [][PostTakes =>
            /\ postPc' = "locked"
            /\ unit' = ExpectedData(InitialRequest(Head(loadedPost)))
         ]_vars
    /\ [][loadedPost # <<>> \/ postPc = "locked" => ~TriggerFires]_vars

\* C14, amended: the initial propagation handles the bodies of one load as
\* one unit at 0.01 minutes.  When the propagator accepts every record, one
\* result with a prediction per new body is pushed to the buffer; when it
\* rejects a record, the load gets no first prediction at all.  This happens
\* in the PreUpdate schedule of the tick after the load completed, whether
\* or not the timer fires, and before the timer sends a batch that names
\* one of these bodies (the timer may fire in between, in the PostUpdate
\* schedule in which the load completed, without naming them).
C14_InitialPropagationPerLoad ==
    /\ [][PostTakes =>
            LET req == InitialRequest(Head(loadedPost))
            IN  IF BatchFails(req)
                THEN /\ postPc' = "idle"
                     /\ buffer' = buffer
                ELSE /\ postPc' = "locked"
                     /\ unit' = ExpectedData(req)
         ]_vars
    /\ [][PostPushes =>
            /\ Len(buffer') = Len(buffer) + 1
            /\ buffer'[Len(buffer')].data = unit
         ]_vars
    /\ [](phase \in {"Update", "PostUpdate"} => postPc = "idle")
    /\ [](phase = "Update" => loadedPost = <<>>)
    /\ [][TriggerFires =>
            Dispatched \cap LoadedEntities(loadedPost) = {}
         ]_vars

\* the result of the initial propagation of three new bodies is in the
\* buffer, while the timer has not started an interval for any of them
C14_Witness ==
    /\ phase = "PreUpdate"
    /\ Len(bodies) = 3
    /\ \A e \in 1..Len(bodies) : bodies[e].dt_acc = 0
    /\ \E i \in 1..Len(buffer) :
         /\ EntitiesOf(buffer[i].data) = <<1, 2, 3>>
         /\ \A e \in 1..3 :
              buffer[i].data[e].position = Sgp4Prediction(1, InitialDt).position


\* ----------------------------------------------------------------- C15
\* the entries of the notifications about to be applied that name no
\* tracked body
StaleEntries ==
    UNION {{ev.data[i] : i \in {k \in 1..Len(ev.data) :
                                   ~InPositionsQuery(bodies, ev.data[k].entity)}}
            : ev \in Range(propagetedEvents)}

\* C15: the apply step skips an entry whose identifier names no tracked
\* body: the step ends without a panic, with every notification read, and
\* changes nothing but the bodies named by the other entries, each of which
\* is left with the position, velocity and translation of a prediction read
\* for it; no body is created or removed.
C15_StaleEntrySkipped ==
    /\ [][phase = "Update" => ~crashed']_vars
    /\ [][Returns("adjust_transaltions_on_propagation") /\ StaleEntries # {} =>
            /\ ~crashed'
            /\ propagetedEvents' = <<>>
            /\ Len(bodies') = Len(bodies)
            /\ \A e \in 1..Len(bodies) :
                 IF AppliedTo(e)
                 THEN \E pr \in PredictionsFor(e) :
                        /\ bodies'[e].status = Propagated(pr.velocity, pr.position, TRUE)
                        /\ bodies'[e].translation = pr.position * Scale
                        /\ bodies'[e].elements = bodies[e].elements
                        /\ bodies'[e].dt_acc = bodies[e].dt_acc
                 ELSE bodies'[e] = bodies[e]
            /\ UNCHANGED <<buffer, lock, propagateEvents, jobs, loadedInst, loadedPost,
                           pendingBodies, pendingInsert, timerElapsed>>
         ]_vars

\* the prediction the consumer asked for has been applied to the first
\* tracked body, though the entries before and after it named entities the
\* apply step does not know
C15_Witness ==
    /\ "adjust_transaltions_on_propagation" \in ran
    /\ Len(bodies) >= 1
    /\ bodies[1].status = Propagated(Sgp4Prediction(bodies[1].elements, ConsumerDt).velocity,
                                     Sgp4Prediction(bodies[1].elements, ConsumerDt).position,
                                     TRUE)
    /\ bodies[1].translation = Sgp4Prediction(bodies[1].elements, ConsumerDt).position * Scale


\* ----------------------------------------------------------------- C18
\* the Propagate request a consumer makes of a batch
ConsumerRequest(data) == [data |-> data, dt_minutes |-> ConsumerDt]

\* C18: a Propagate request whose entries all propagate, waiting to be read
\* when b - 1 results have been pushed, leads to the Propageted notification
\* number b, which holds one prediction per entry of the request in entry
\* order; no result is emitted twice, and a notification is never longer or
\* shorter than the request it answers.
C18_PropagateAnswered ==
    /\ \A data \in ConsumerBatches(<<>>) : \A b \in 1..(MaxResults + 1) :
         (/\ ConsumerRequest(data) \in Range(propagateEvents)
          /\ ~BatchFails(ConsumerRequest(data))
          /\ nextBid = b)
         ~> (\E i \in 1..Len(propagetedEvents) :
               propagetedEvents[i] = [data |-> ExpectedData(ConsumerRequest(data)),
                                      bid |-> b])
    /\ [](\A b \in 1..nextBid : Occurrences(emitted, b) <= 1)
    /\ [](\A b \in 1..nextBid : Occurrences(Bids(propagetedEvents), b) <= 1)

\* the second request of the consumer has been answered, the first answer
\* having been read
C18_Witness ==
    /\ emitted = <<1, 2>>
    /\ \E i \in 1..Len(propagetedEvents) :
         /\ propagetedEvents[i].bid = 2
         /\ EntitiesOf(propagetedEvents[i].data) = <<-1, -2>>
         /\ propagetedEvents[i].data[1].position = Sgp4Prediction(1, ConsumerDt).position



\* ----------------------------------------------------------------- C21
\* load units that are still to be polled
OpenJobs == {j \in 1..Len(jobs) : jobs[j].task \in {"running", "done"}}

\* C21: load requests with the same key are neither coalesced nor dropped:
\* move_to_loading spawns one load unit per event it reads, also when the
\* events are equal; every request is at any time a pending event, an open
\* load unit or a loaded notification; each notification carries the
\* records of the file and as many entities, which are bodies with the
\* elements of the records; and the entities of two notifications are
\* disjoint.
C21_SameKeyNotCoalesced ==
    /\ [][Returns("move_to_loading") =>
            /\ Len(jobs') = Len(jobs) + Len(loadEvents)
            /\ \A i \in 1..Len(loadEvents) :
                 /\ jobs'[Len(jobs) + i].group = loadEvents[i].group
                 /\ jobs'[Len(jobs) + i].format = loadEvents[i].format
                 /\ jobs'[Len(jobs) + i].task = "running"
         ]_vars
    /\ [](requests = Len(loadEvents) + Cardinality(OpenJobs) + Len(loadedPost))
    /\ [](\A n \in 1..Len(loadedPost) :
            LET ev == loadedPost[n]
                all == bodies \o pendingBodies
            IN  /\ ev.data = DataFiles[SameKey.group]
                /\ Len(ev.entities) = Len(ev.data)
                /\ Cardinality(Range(ev.entities)) = Len(ev.data)
                /\ \A r \in 1..Len(ev.entities) :
                     /\ ev.entities[r] \in 1..Len(all)
                     /\ all[ev.entities[r]].elements = ev.data[r]
                /\ \A m \in 1..Len(loadedPost) :
                     m # n => Range(ev.entities) \cap Range(loadedPost[m].entities) = {})
    /\ [](Len(bodies) + Len(pendingBodies) = Len(loadedPost) * Len(DataFiles[SameKey.group]))

\* two requests with the same key have been answered by two notifications
\* and twice the bodies of the file
C21_Witness ==
    /\ requests = 2
    /\ jobs = <<>>
    /\ Len(loadedPost) = 2
    /\ Len(bodies) = 2 * Len(DataFiles.galileo)
    /\ Range(loadedPost[1].entities) \cap Range(loadedPost[2].entities) = {}


\* ----------------------------------------------------------------- C24
\* the state the initial propagation gives a body with elements el
InitialStatus(el, flag) ==
    Propagated(Sgp4Prediction(el, InitialDt).velocity,
               Sgp4Prediction(el, InitialDt).position, flag)

\* body e is named by an entry of the batch
Names(ev, e) == \E i \in 1..Len(ev.data) : ev.data[i].entity = e

\* C24: a body that is Propagated and whose later batches all fail (the
\* body with the decaying orbit, and with it every member of its batch)
\* keeps the velocity and position of its last prediction; a step that
\* takes a failing batch changes no body; and every extrapolation tick that
\* finds the flag of such a body clear moves it by
\* velocity x scale x simulationSpeed x frameDelta.
C24_FailedBatchesKeepMotion ==
    /\ [][AcceptTakes /\ BatchFails(Head(propagateEvents)) => bodies' = bodies]_vars
    /\ [](\A e \in 1..Len(bodies) :
            /\ bodies[e].status.tag = "Propagated"
            /\ \/ bodies[e].elements = 2
               \/ batch_size >= Len(bodies)
            => bodies[e].status.velocity = Sgp4Prediction(bodies[e].elements, InitialDt).velocity
               /\ bodies[e].status.position = Sgp4Prediction(bodies[e].elements, InitialDt).position)
    /\ [][Returns("approximate_propagation") =>
            \A e \in 1..Len(bodies) :
              /\ bodies[e].elements = 2
              /\ bodies[e].status.tag = "Propagated"
              /\ ~bodies[e].status.just_propagated
              => /\ bodies'[e].translation = bodies[e].translation + MovedBy(bodies[e], delta)
                 /\ bodies'[e].status = bodies[e].status
         ]_vars

\* the batch of the decaying body was taken and dropped in this tick, and
\* the body, still in the state of its initial prediction, was moved
\* after that
C24_Witness ==
    /\ phase = "Update"
    /\ {"accept_propagation", "approximate_propagation"} \subseteq ran
    /\ propagateEvents = <<>>
    /\ buffer = <<>>
    /\ propagetedEvents = <<>>
    /\ unit = <<>>
    /\ \E e \in 1..Len(bodies) :
         /\ bodies[e].elements = 2
         /\ bodies[e].dt_acc >= StepSecs
         /\ bodies[e].status = InitialStatus(2, FALSE)
         /\ bodies[e].translation
              = bodies[e].status.position * Scale + MovedBy(bodies[e], delta)

\* ----------------------------------------------------------------- C25
\* C25: the extrapolation tick leaves a body in state NotPropagated as it
\* is; the state and the translation of such a body change only in the
\* apply step, when a prediction for it is read; so a NotPropagated body is
\* where its Transform was created.
C25_NotPropagatedStays ==
    /\ [][Returns("approximate_propagation") =>
            \A e \in 1..Len(bodies) :
              bodies[e].status = NotPropagated => bodies'[e] = bodies[e]
         ]_vars
    /\ [][\A e \in 1..Len(bodies) :
            /\ bodies[e].status = NotPropagated
            /\ \/ bodies'[e].status # bodies[e].status
               \/ bodies'[e].translation # bodies[e].translation
            => Returns("adjust_transaltions_on_propagation") /\ AppliedTo(e)
         ]_vars
    /\ [](\A e \in 1..Len(bodies) :
            bodies[e].status = NotPropagated => bodies[e].translation = 0)

\* the extrapolation has run over a body that is shown and NotPropagated
\* next to a Propagated body whose flag it cleared
C25_Witness ==
    /\ "approximate_propagation" \in ran
    /\ "adjust_transaltions_on_propagation" \in ran
    /\ \E e, f \in 1..Len(bodies) :
         /\ bodies[e].status = NotPropagated
         /\ bodies[e].hasTransform
         /\ bodies[e].translation = 0
         /\ bodies[f].status.tag = "Propagated"
         /\ ~bodies[f].status.just_propagated


\* ----------------------------------------------------------------- C22
\* call c makes a step
LoadSteps(c) == loads'[c] # loads[c]

InFlight(c) == loads[c].pc = "request"

\* call d, for the key of call c, is about to read the cache
ReadsBehind(c, d) ==
    /\ c # d
    /\ loads[d].pc = "read"
    /\ loads[d].key = loads[c].key

FixedElements(o) ==
    <<o.semi_major_axis, o.eccentricity, o.inclination, o.raan,
      o.argument_of_perigee, o.epoch>>

PropagateReturns == solver.pc = "solved" /\ solver'.pc = "returned"

\* C26: the element set a call of propagate returns has the semi-major
\* axis, eccentricity, inclination, RAAN, argument of perigee and epoch of
\* the set it was called on, and the call leaves that set as it is; the
\* orbit of a satellite changes only when propagete_actual_orbit stores
\* the returned set, that is, in its true anomaly.
C26_OnlyTrueAnomalyChanges ==
    /\ [][PropagateReturns =>
            /\ orbit' = orbit
            /\ solver.self = orbit
            /\ FixedElements(propagated') = FixedElements(orbit)
         ]_vars
    /\ [][orbit' # orbit =>
            /\ solver.pc = "returned"
            /\ orbit' = propagated
            /\ FixedElements(orbit') = FixedElements(orbit)
         ]_vars

\* propagate has returned a set with another true anomaly, and the set it
\* was called on is still the one of the test
C26_Witness ==
    /\ solver.pc = "returned"
    /\ orbit = SatelliteOrbitNew(6771, 0, 0, 0, 90, Num(0), 2451545)
    /\ propagated.true_anomaly # orbit.true_anomaly
    /\ FixedElements(propagated) = FixedElements(orbit)

\* ----------------------------------------------------------------- C28
\* C28: the center offset of the ellipse of an element set with
\* eccentricity 0 has length 0, whatever the inclination, RAAN, argument of
\* perigee and scale.
C28_CircularOffsetZero ==
    orbit # <<>> /\ elipse # <<>> /\ orbit.eccentricity = 0
        => Dot(elipse.offset, elipse.offset) = 0

\* the ellipse of a circular orbit that is inclined and turned in its
\* plane, at the scale of the tests
C28_Witness ==
    /\ orbit # <<>>
    /\ elipse # <<>>
    /\ orbit.eccentricity = 0
    /\ orbit.inclination = 90
    /\ orbit.raan = 270
    /\ orbit.argument_of_perigee = 180
    /\ elipse.half_size[1] = orbit.semi_major_axis * 100
    /\ elipse.offset = <<0, 0, 0>>

\* ----------------------------------------------------------------- C29
SolverPasses == solver.pc = "solving" /\ solver' # solver

\* C29: the solver starts from the mean anomaly; every pass of its loop
\* subtracts the correction from the iterate; the loop is left after a pass
\* exactly when the magnitude of that correction is below 1e-6 or the pass
\* was the hundredth; what is returned is the iterate after that pass; and
\* there are never more than a hundred passes.
C29_SolverBounded ==
    /\ [](solver.iterations \in 0..100)
    /\ [][solver.pc # "solving" /\ solver'.pc = "solving" =>
            /\ solver'.eccentric_anomaly = solver'.mean_anomaly
            /\ solver'.iterations = 0
         ]_vars
    /\ [][SolverPasses =>
            /\ solver'.iterations = solver.iterations + 1
            /\ solver'.eccentric_anomaly = Sub(solver.eccentric_anomaly, solver'.delta)
            /\ solver'.pc \in {"solving", "solved"}
            /\ solver'.pc = "solved" <=>
                 \/ ~solver'.delta.nan /\ -10 < solver'.delta.v /\ solver'.delta.v < 10
                 \/ solver'.iterations = 100
            /\ solver'.pc = "solved" => solver'.ret = solver'.eccentric_anomaly
         ]_vars

\* the hundredth pass ended with a correction that is not below the
\* tolerance, and the iterate was returned
C29_Witness ==
    /\ solver.pc = "solved"
    /\ solver.iterations = 100
    /\ ~solver.delta.nan
    /\ Abs(solver.delta.v) >= 10
    /\ solver.ret = solver.eccentric_anomaly
    /\ ~solver.ret.nan

HoldsGuard(c) == c \in rwlock.readers \/ rwlock.writer = c

\* call c is at a lock() of the cache
AtLock(c) == loads[c].pc \in {"read", "write", "store"}

\* C31: a load never comes to lock the cache while it holds a guard of an
\* earlier lock of the same call, and a load that missed the cache and
\* whose request has succeeded ends: it returns the records it was sent
\* and holds no guard of the cache lock.
C31_MissTerminates ==
    /\ [](\A c \in Calls : AtLock(c) => ~HoldsGuard(c))
    /\ \A c \in Calls :
         loads[c].pc = "store" ~>
            /\ loads[c].pc = "returned"
            /\ loads[c].ret = [kind |-> "ok", data |-> loads[c].response]
            /\ ~HoldsGuard(c)

\* ----------------------------------------------------------------- C32
\* the request of call c fails in this step
RequestFails(c) ==
    /\ loads[c].pc = "request"
    /\ loads'[c].pc = "returned"
    /\ loads'[c].ret.kind = "err"

\* C32: when the request of a load fails, the cache has no entry for the
\* key of the load afterwards, and no load ever returns an empty list as a
\* success (the endpoint holds records for every key).
C32_FailureLeavesNoEntry ==
    /\ [][\A c \in Calls : RequestFails(c) => loads[c].key \notin DOMAIN cache']_vars
    /\ [](\A d \in Calls : loads[d].ret # [kind |-> "ok", data |-> <<>>])


\* ----------------------------------------------------------------- C33
\* C33: a call of trigger_propagation whose timer has fired, with a body
\* tracked, comes to its end, whatever the batch size, and has by then
\* sent no more batches than there are bodies.
C33_FiringTickTerminates ==
    /\ (trigger.pc = "loop" /\ Len(bodies) >= 1) ~> trigger.pc = "done"
    /\ [](Len(propagateEvents) <= Len(bodies))


\* ----------------------------------------------------------------- C34
\* the batch of at most batch_size bodies the i-th body of a load falls in
BatchOf(i, n) ==
    LET lo == ((i - 1) \div batch_size) * batch_size + 1
    IN  lo..Min(lo + batch_size - 1, n)

\* C34: when the initial propagation takes a load, every body of the load
\* whose batch of at most batch_size bodies holds no record the propagator
\* rejects gets its first prediction: a rejected record costs only the
\* bodies of its own batch their first prediction.
C34_InitialPropagationBatched ==
    [][PostTakes =>
         LET req == InitialRequest(Head(loadedPost))
             n == Len(req.data)
         IN  \A i \in 1..n :
               (\A k \in BatchOf(i, n) : ~Sgp4Fails(req.data[k].elements, InitialDt))
                 => /\ postPc' = "locked"
                    /\ \E m \in 1..Len(unit') : unit'[m].entity = req.data[i].entity
    ]_vars


\* ----------------------------------------------------------------- C35
\* the loader fails on the request of the job
FailedLoader(job) == Load(job.group, job.format).kind # "ok"

\* C35: the task of a load whose loader fails ends with the empty list;
\* the poll that finds it sends one loaded notification for it with no
\* identifiers and no records and takes the job out of the set of jobs,
\* and a poll that finds only such loads creates no body.
C35_FailedLoadCompletes ==
    /\ [](\A j \in 1..Len(jobs) :
            FailedLoader(jobs[j]) =>
              /\ jobs[j].task \in {"running", "done", "taken"}
              /\ jobs[j].data = <<>>)
    /\ [][Returns("execute_elements_loading") =>
            /\ Len(NewLoaded) = Len(CompletedJobs)
            /\ \A n \in 1..Len(CompletedJobs) :
                 FailedLoader(jobs[CompletedJobs[n]]) =>
                   /\ NewLoaded[n] = [entities |-> <<>>, data |-> <<>>]
                   /\ jobs'[CompletedJobs[n]].task = "taken"
            /\ (\A n \in 1..Len(CompletedJobs) : FailedLoader(jobs[CompletedJobs[n]]))
                 => pendingBodies' = pendingBodies
         ]_vars


\* ----------------------------------------------------------------- C36
\* the Accumulated Durations of the bodies, by entity
Durations(bs) == [e \in 1..Len(bs) |-> bs[e].dt_acc]

\* C36: a run of trigger_propagation on a tick whose delta does not bring
\* the timer to its interval sends no Propagate event and leaves the
\* Accumulated Duration of every body as it is; approximate_propagation
\* and adjust_transaltions_on_propagation never change an Accumulated
\* Duration.
C36_QuietTickKeepsDurations ==
    /\ [][Returns("trigger_propagation") /\ timerElapsed + delta < IntervalSecs =>
            /\ propagateEvents' = propagateEvents
            /\ Durations(bodies') = Durations(bodies)
            /\ timerElapsed' = timerElapsed + delta
         ]_vars
    /\ [][Returns("approximate_propagation")
            \/ Returns("adjust_transaltions_on_propagation")
            => Durations(bodies') = Durations(bodies)
         ]_vars

\* trigger_propagation has run on a tick on which the timer did not fire,
\* with a body tracked that has a duration and a prediction applied, and
\* nothing is dispatched
C36_Witness ==
    /\ phase = "PostUpdate"
    /\ "trigger_propagation" \in ran
    /\ delta = 1
    /\ timerElapsed = 1
    /\ propagateEvents = <<>>
    /\ \E e \in 1..Len(bodies) :
         /\ bodies[e].dt_acc = StepSecs
         /\ bodies[e].status.tag = "Propagated"


\* ----------------------------------------------------------------- C37
\* the entries of the notifications about to be applied, in the order in
\* which they were emitted
RECURSIVE EntriesOf(_)
EntriesOf(evs) ==
    IF evs = <<>> THEN <<>> ELSE Head(evs).data \o EntriesOf(Tail(evs))

EntriesFor(e) == SelectSeq(EntriesOf(propagetedEvents), LAMBDA pr : pr.entity = e)

\* C37: the apply step leaves a body it has predictions for at the position
\* of the last of them emitted, times the scale, whatever its translation
\* was before, and with the velocity of that prediction; a body whose
\* prediction has not yet been passed over by the extrapolation is where
\* the prediction put it.
C37_LastPredictionStands ==
    /\ [][Returns("adjust_transaltions_on_propagation") =>
            \A e \in 1..Len(bodies) :
              AppliedTo(e) =>
                LET last == EntriesFor(e)[Len(EntriesFor(e))]
                IN  /\ bodies'[e].translation = last.position * Scale
                    /\ bodies'[e].status.tag = "Propagated"
                    /\ bodies'[e].status.velocity = last.velocity
                    /\ bodies'[e].status.position = last.position
         ]_vars
    /\ [](\A e \in 1..Len(bodies) :
            bodies[e].status.tag = "Propagated" /\ bodies[e].status.just_propagated
              => bodies[e].translation = bodies[e].status.position * Scale)

\* the extrapolation of this tick has run, and after it the apply step has
\* put a body, for which two results were emitted, where the prediction of
\* the timer batch says
C37_Witness ==
    /\ phase = "Update"
    /\ {"approximate_propagation", "adjust_transaltions_on_propagation"} \subseteq ran
    /\ Len(emitted) >= 2
    /\ \E e \in 1..Len(bodies) :
         /\ bodies[e].status.tag = "Propagated"
         /\ bodies[e].status.just_propagated
         /\ bodies[e].status.velocity = Sgp4Prediction(1, StepSecs).velocity
         /\ bodies[e].translation = Sgp4Prediction(1, StepSecs).position * Scale

====
